---------------------------- MODULE Spec2Model ----------------------------
(***************************************************************************)
(* Model of generate_bug_report.py: a sequential pipeline that discovers   *)
(* the attached devices, selects one, probes the application directories,  *)
(* asks for an incident summary, pulls directories and recent files,       *)
(* collects device logs and packages the report directory into an archive. *)
(*                                                                         *)
(* Text is modelled as a sequence of one-character strings, so that the    *)
(* string operations of the program (strip, splitlines, split, substring   *)
(* tests, the ANSI regular expression, path joins) are computed and not    *)
(* assumed.  A printable ASCII character is written as itself, tab, line   *)
(* feed, carriage return and form feed as "\t", "\n", "\r" and "\f", the    *)
(* escape character 0x1b as ESC, and any other character by its code       *)
(* point, as in "U+0085".                                                  *)
(***************************************************************************)
EXTENDS Naturals, Integers, Sequences, FiniteSets

VARIABLES
    pc,              \* position of the main program (lines 198-249)
    devices,         \* result of get_connected_devices()
    selected_device, \* result of select_device(devices)
    reads,           \* number of input() calls made by select_device
    last_input,      \* the text returned by the most recent input()
    args,            \* parsed command line: [n, simplified]
    app_directories, \* result of get_application_directories()
    recent_file_commands, \* the (directory, listing command) pairs (lines 212-222)
    idx,             \* index of the next directory of the running collection loop
    user_summary,    \* the incident summary typed by the operator
    timestamp,       \* module-level timestamp (line 22)
    dirs,            \* local directories existing under incident_reports
    fs,              \* local regular files: path -> content
    archive,         \* the zip written by create_zip
    exit_status,     \* <<status>> once the process has exited, <<>> before
    stages,          \* the stages started so far, in order
    calls,           \* the device commands issued so far, with outcome
    fin,             \* input of the function under check
    fout             \* its result

pvars == <<pc, devices, selected_device, reads, last_input, args,
           app_directories, recent_file_commands, idx, user_summary,
           timestamp, dirs, fs, archive, exit_status, stages, calls>>
vars == <<pvars, fin, fout>>

-----------------------------------------------------------------------------
(* Bounds of the model. *)

\* longest text, in pieces, fed to the ANSI stripper
MaxPieces == 3

-----------------------------------------------------------------------------
(* Python values and string primitives. *)

ESC == "ESC"

\* Python's None; no text is equal to it
None == <<"<None>">>

\* bool(x) for x a str or None (lines 93, 112, 164)
Truthy(x) == x # None /\ x # <<>>

\* the characters for which str.isspace holds: those that strip() and split()
\* take for white space
WhiteSpace ==
    {"\t", "\n", "U+000B", "\f", "\r", "U+001C", "U+001D", "U+001E",
     "U+001F", " ", "U+0085", "U+00A0", "U+1680", "U+2000", "U+2001",
     "U+2002", "U+2003", "U+2004", "U+2005", "U+2006", "U+2007", "U+2008",
     "U+2009", "U+200A", "U+2028", "U+2029", "U+202F", "U+205F", "U+3000"}

\* str.isspace
IsSpace(c) == c \in WhiteSpace

\* the class [0-9] of a regular expression over str
Digits == {"0", "1", "2", "3", "4", "5", "6", "7", "8", "9"}

\* least and greatest member of a non-empty set of numbers
Min(S) == CHOOSE x \in S : \A y \in S : x <= y
Max(S) == CHOOSE x \in S : \A y \in S : y <= x

\* the positions where a run of non-space characters of s begins, and ends
TokenStarts(s) == {i \in 1..Len(s) : ~IsSpace(s[i]) /\ (i = 1 \/ IsSpace(s[i - 1]))}
TokenEnds(s) == {i \in 1..Len(s) : ~IsSpace(s[i]) /\ (i = Len(s) \/ IsSpace(s[i + 1]))}

\* str.lstrip(), str.rstrip()
LStrip(s) == IF TokenStarts(s) = {} THEN <<>> ELSE SubSeq(s, Min(TokenStarts(s)), Len(s))
RStrip(s) == IF TokenEnds(s) = {} THEN <<>> ELSE SubSeq(s, 1, Max(TokenEnds(s)))

\* str.strip()
Strip(s) == RStrip(LStrip(s))

\* the line boundaries of str.splitlines
LineBreaks ==
    {"\n", "U+000B", "\f", "\r", "U+001C", "U+001D", "U+001E", "U+0085",
     "U+2028", "U+2029"}

RECURSIVE SplitLinesFrom(_, _)
\* the lines of s from position i on: a line ends at the next boundary, "\r\n"
\* counts as one, and a boundary at the very end opens no further line
SplitLinesFrom(s, i) ==
    IF i > Len(s) THEN <<>>
    ELSE LET breaks == {j \in i..Len(s) : s[j] \in LineBreaks}
         IN  IF breaks = {} THEN <<SubSeq(s, i, Len(s))>>
             ELSE LET j == Min(breaks)
                      next == IF s[j] = "\r" /\ j < Len(s) /\ s[j + 1] = "\n"
                              THEN j + 2 ELSE j + 1
                  IN  <<SubSeq(s, i, j - 1)>> \o SplitLinesFrom(s, next)

\* str.splitlines()
SplitLines(s) == SplitLinesFrom(s, 1)

RECURSIVE SplitFrom(_, _, _)
\* the tokens of s that begin at the positions of starts
SplitFrom(s, starts, ends) ==
    IF starts = {} THEN <<>>
    ELSE <<SubSeq(s, Min(starts), Min(ends))>>
         \o SplitFrom(s, starts \ {Min(starts)}, ends \ {Min(ends)})

\* str.split() with no separator
Split(s) == SplitFrom(s, TokenStarts(s), TokenEnds(s))

\* sub in s
Contains(sub, s) ==
    \E i \in 1..(Len(s) + 1 - Len(sub)) : SubSeq(s, i, i + Len(sub) - 1) = sub

\* s.startswith(p)
StartsWith(s, p) == Len(p) <= Len(s) /\ SubSeq(s, 1, Len(p)) = p

RECURSIVE RStripSlash(_)
\* s.rstrip("/")
RStripSlash(s) == IF s # <<>> /\ s[Len(s)] = "/"
                  THEN RStripSlash(SubSeq(s, 1, Len(s) - 1)) ELSE s

\* "".join(parts)
RECURSIVE Flatten(_)
Flatten(parts) == IF parts = <<>> THEN <<>> ELSE Head(parts) \o Flatten(Tail(parts))

\* os.path.join(a, b) on POSIX
PathJoin(a, b) == IF StartsWith(b, <<"/">>) THEN b
                  ELSE IF a = <<>> \/ a[Len(a)] = "/" THEN a \o b
                  ELSE a \o <<"/">> \o b

\* index of the last "/" of p, 0 when there is none
LastSlash(p) == LET S == {i \in 1..Len(p) : p[i] = "/"}
                IN  IF S = {} THEN 0 ELSE CHOOSE i \in S : \A j \in S : j <= i

\* os.path.basename(p)
Basename(p) == SubSeq(p, LastSlash(p) + 1, Len(p))

\* os.path.relpath(p, start) for p below start (both normalised)
RelPath(p, start) == IF StartsWith(p, start \o <<"/">>)
                     THEN SubSeq(p, Len(start) + 2, Len(p)) ELSE p

-----------------------------------------------------------------------------
(* run_adb_command (lines 70-82). *)

AnsiParams == Digits \cup {";"}

\* first index >= i of s that holds no character of [0-9;]
RECURSIVE SkipParams(_, _)
SkipParams(s, i) == IF i <= Len(s) /\ s[i] \in AnsiParams
                    THEN SkipParams(s, i + 1) ELSE i

\* a plausible slip: the class [0-9] without the semicolon
MatchAnsiNoSemicolon(s, i) ==
    LET RECURSIVE Skip(_)
        Skip(k) == IF k <= Len(s) /\ s[k] \in Digits THEN Skip(k + 1) ELSE k
    IN  IF i + 1 <= Len(s) /\ s[i] = ESC /\ s[i + 1] = "["
        THEN LET j == Skip(i + 2)
             IN  IF j <= Len(s) /\ s[j] = "m" THEN j ELSE 0
        ELSE 0

\* index of the last character of a match of \x1b\[[0-9;]*m starting at i, or 0
MatchAnsi(s, i) ==
    IF i + 1 <= Len(s) /\ s[i] = ESC /\ s[i + 1] = "["
    THEN LET j == SkipParams(s, i + 2)
         IN  IF j <= Len(s) /\ s[j] = "m" THEN j ELSE 0
    ELSE 0

RECURSIVE ReSubFrom(_, _)
\* the scan from position i: up to the leftmost match, then on after its end
ReSubFrom(s, i) ==
    LET found == {j \in i..Len(s) : s[j] = ESC /\ MatchAnsi(s, j) > 0}
    IN  IF found = {} THEN SubSeq(s, i, Len(s))
        ELSE SubSeq(s, i, Min(found) - 1) \o ReSubFrom(s, MatchAnsi(s, Min(found)) + 1)

\* re.sub(r'\x1b\[[0-9;]*m', '', s): leftmost non-overlapping matches, one pass
ReSubAnsi(s) == ReSubFrom(s, 1)

\* The outcome of a subprocess: ok = FALSE is CalledProcessError (non-zero exit)
Failed == [ok |-> FALSE, stdout |-> <<>>]
Ok(text) == [ok |-> TRUE, stdout |-> text]

\* run_adb_command given what the subprocess did
run_adb_command(outcome) ==
    IF outcome.ok THEN ReSubAnsi(Strip(outcome.stdout)) ELSE None

-----------------------------------------------------------------------------
(* Module-level configuration (lines 11-35). *)

directories_to_pull == << <<"/","s","d","c","a","r","d","/","P","i","c","t","u","r","e","s">>, <<"/","s","d","c","a","r","d","/","M","o","v","i","e","s">> >>

incident_dir == <<"i","n","c","i","d","e","n","t","_","r","e","p","o","r","t","s">>

DigitChars == <<"0", "1", "2", "3", "4", "5", "6", "7", "8", "9">>

\* %m, %d, %H, %M, %S: two digits, zero padded
Pad2(n) == <<DigitChars[((n \div 10) % 10) + 1], DigitChars[(n % 10) + 1]>>

\* %Y for a four-digit year
Pad4(n) == Pad2(n \div 100) \o Pad2(n % 100)

\* datetime.strftime("%m-%d-%Y_%H:%M:%S")
Strftime(t) == Pad2(t.month) \o <<"-">> \o Pad2(t.day) \o <<"-">> \o Pad4(t.year)
               \o <<"_">> \o Pad2(t.hour) \o <<":">> \o Pad2(t.minute) \o <<":">> \o Pad2(t.second)

report_dir(ts) == PathJoin(incident_dir, <<"r","e","p","o","r","t","_">> \o ts)

screen_recordings_dir(ts) == PathJoin(report_dir(ts), <<"S","c","r","e","e","n"," ","R","e","c","o","r","d","i","n","g","s">>)
qgc_logs_dir(ts) == PathJoin(report_dir(ts), <<"Q","G","C"," ","L","o","g","s">>)
device_info_dir(ts) == PathJoin(report_dir(ts), <<"D","e","v","i","c","e"," ","I","n","f","o">>)
navsuite_log_dir(ts) == PathJoin(report_dir(ts), <<"N","a","v","s","u","i","t","e"," ","L","o","g","s">>)

\* the directories made at import time (lines 19, 24, 32-35)
InitialDirs(ts) == {incident_dir, report_dir(ts), screen_recordings_dir(ts),
                    qgc_logs_dir(ts), device_info_dir(ts), navsuite_log_dir(ts)}

EmptyFS == [p \in {} |-> <<>>]

\* open(path, "w").write(data), or a pulled file landing at path
WriteFile(files, path, data) ==
    [p \in (DOMAIN files) \cup {path} |-> IF p = path THEN data ELSE files[p]]

-----------------------------------------------------------------------------
(* get_connected_devices (lines 37-46) and select_device (lines 48-68). *)

\* the devices named by the output of "adb devices"
DeviceLines(stdout) ==
    LET lines == SplitLines(Strip(stdout))
    IN  SelectSeq(SubSeq(lines, 2, Len(lines)), LAMBDA line : Contains(<<"d","e","v","i","c","e">>, line))

\* a plausible slip: the header line is not skipped
GetConnectedDevicesWithHeader(outcome) ==
    IF outcome.ok
    THEN LET lines == SplitLines(Strip(outcome.stdout))
             kept == SelectSeq(lines, LAMBDA line : Contains(<<"d","e","v","i","c","e">>, line))
         IN  [i \in 1..Len(kept) |-> Split(kept[i])[1]]
    ELSE <<>>

get_connected_devices(outcome) ==
    IF outcome.ok
    THEN LET kept == DeviceLines(outcome.stdout)
         IN  [i \in 1..Len(kept) |-> Split(kept[i])[1]]
    ELSE <<>>

\* the characters int() reads as the decimal digits 0 to 9 (category Nd), by value
DecimalDigits == <<
    {"0", "U+0660", "U+06F0", "U+07C0", "U+0966", "U+09E6", "U+0A66",
     "U+0AE6", "U+0B66", "U+0BE6", "U+0C66", "U+0CE6", "U+0D66", "U+0DE6",
     "U+0E50", "U+0ED0", "U+0F20", "U+1040", "U+1090", "U+17E0", "U+1810",
     "U+1946", "U+19D0", "U+1A80", "U+1A90", "U+1B50", "U+1BB0", "U+1C40",
     "U+1C50", "U+A620", "U+A8D0", "U+A900", "U+A9D0", "U+A9F0", "U+AA50",
     "U+ABF0", "U+FF10", "U+104A0", "U+10D30", "U+11066", "U+110F0",
     "U+11136", "U+111D0", "U+112F0", "U+11450", "U+114D0", "U+11650",
     "U+116C0", "U+11730", "U+118E0", "U+11950", "U+11C50", "U+11D50",
     "U+11DA0", "U+16A60", "U+16AC0", "U+16B50", "U+1D7CE", "U+1D7D8",
     "U+1D7E2", "U+1D7EC", "U+1D7F6", "U+1E140", "U+1E2F0", "U+1E950",
     "U+1FBF0"},
    {"1", "U+0661", "U+06F1", "U+07C1", "U+0967", "U+09E7", "U+0A67",
     "U+0AE7", "U+0B67", "U+0BE7", "U+0C67", "U+0CE7", "U+0D67", "U+0DE7",
     "U+0E51", "U+0ED1", "U+0F21", "U+1041", "U+1091", "U+17E1", "U+1811",
     "U+1947", "U+19D1", "U+1A81", "U+1A91", "U+1B51", "U+1BB1", "U+1C41",
     "U+1C51", "U+A621", "U+A8D1", "U+A901", "U+A9D1", "U+A9F1", "U+AA51",
     "U+ABF1", "U+FF11", "U+104A1", "U+10D31", "U+11067", "U+110F1",
     "U+11137", "U+111D1", "U+112F1", "U+11451", "U+114D1", "U+11651",
     "U+116C1", "U+11731", "U+118E1", "U+11951", "U+11C51", "U+11D51",
     "U+11DA1", "U+16A61", "U+16AC1", "U+16B51", "U+1D7CF", "U+1D7D9",
     "U+1D7E3", "U+1D7ED", "U+1D7F7", "U+1E141", "U+1E2F1", "U+1E951",
     "U+1FBF1"},
    {"2", "U+0662", "U+06F2", "U+07C2", "U+0968", "U+09E8", "U+0A68",
     "U+0AE8", "U+0B68", "U+0BE8", "U+0C68", "U+0CE8", "U+0D68", "U+0DE8",
     "U+0E52", "U+0ED2", "U+0F22", "U+1042", "U+1092", "U+17E2", "U+1812",
     "U+1948", "U+19D2", "U+1A82", "U+1A92", "U+1B52", "U+1BB2", "U+1C42",
     "U+1C52", "U+A622", "U+A8D2", "U+A902", "U+A9D2", "U+A9F2", "U+AA52",
     "U+ABF2", "U+FF12", "U+104A2", "U+10D32", "U+11068", "U+110F2",
     "U+11138", "U+111D2", "U+112F2", "U+11452", "U+114D2", "U+11652",
     "U+116C2", "U+11732", "U+118E2", "U+11952", "U+11C52", "U+11D52",
     "U+11DA2", "U+16A62", "U+16AC2", "U+16B52", "U+1D7D0", "U+1D7DA",
     "U+1D7E4", "U+1D7EE", "U+1D7F8", "U+1E142", "U+1E2F2", "U+1E952",
     "U+1FBF2"},
    {"3", "U+0663", "U+06F3", "U+07C3", "U+0969", "U+09E9", "U+0A69",
     "U+0AE9", "U+0B69", "U+0BE9", "U+0C69", "U+0CE9", "U+0D69", "U+0DE9",
     "U+0E53", "U+0ED3", "U+0F23", "U+1043", "U+1093", "U+17E3", "U+1813",
     "U+1949", "U+19D3", "U+1A83", "U+1A93", "U+1B53", "U+1BB3", "U+1C43",
     "U+1C53", "U+A623", "U+A8D3", "U+A903", "U+A9D3", "U+A9F3", "U+AA53",
     "U+ABF3", "U+FF13", "U+104A3", "U+10D33", "U+11069", "U+110F3",
     "U+11139", "U+111D3", "U+112F3", "U+11453", "U+114D3", "U+11653",
     "U+116C3", "U+11733", "U+118E3", "U+11953", "U+11C53", "U+11D53",
     "U+11DA3", "U+16A63", "U+16AC3", "U+16B53", "U+1D7D1", "U+1D7DB",
     "U+1D7E5", "U+1D7EF", "U+1D7F9", "U+1E143", "U+1E2F3", "U+1E953",
     "U+1FBF3"},
    {"4", "U+0664", "U+06F4", "U+07C4", "U+096A", "U+09EA", "U+0A6A",
     "U+0AEA", "U+0B6A", "U+0BEA", "U+0C6A", "U+0CEA", "U+0D6A", "U+0DEA",
     "U+0E54", "U+0ED4", "U+0F24", "U+1044", "U+1094", "U+17E4", "U+1814",
     "U+194A", "U+19D4", "U+1A84", "U+1A94", "U+1B54", "U+1BB4", "U+1C44",
     "U+1C54", "U+A624", "U+A8D4", "U+A904", "U+A9D4", "U+A9F4", "U+AA54",
     "U+ABF4", "U+FF14", "U+104A4", "U+10D34", "U+1106A", "U+110F4",
     "U+1113A", "U+111D4", "U+112F4", "U+11454", "U+114D4", "U+11654",
     "U+116C4", "U+11734", "U+118E4", "U+11954", "U+11C54", "U+11D54",
     "U+11DA4", "U+16A64", "U+16AC4", "U+16B54", "U+1D7D2", "U+1D7DC",
     "U+1D7E6", "U+1D7F0", "U+1D7FA", "U+1E144", "U+1E2F4", "U+1E954",
     "U+1FBF4"},
    {"5", "U+0665", "U+06F5", "U+07C5", "U+096B", "U+09EB", "U+0A6B",
     "U+0AEB", "U+0B6B", "U+0BEB", "U+0C6B", "U+0CEB", "U+0D6B", "U+0DEB",
     "U+0E55", "U+0ED5", "U+0F25", "U+1045", "U+1095", "U+17E5", "U+1815",
     "U+194B", "U+19D5", "U+1A85", "U+1A95", "U+1B55", "U+1BB5", "U+1C45",
     "U+1C55", "U+A625", "U+A8D5", "U+A905", "U+A9D5", "U+A9F5", "U+AA55",
     "U+ABF5", "U+FF15", "U+104A5", "U+10D35", "U+1106B", "U+110F5",
     "U+1113B", "U+111D5", "U+112F5", "U+11455", "U+114D5", "U+11655",
     "U+116C5", "U+11735", "U+118E5", "U+11955", "U+11C55", "U+11D55",
     "U+11DA5", "U+16A65", "U+16AC5", "U+16B55", "U+1D7D3", "U+1D7DD",
     "U+1D7E7", "U+1D7F1", "U+1D7FB", "U+1E145", "U+1E2F5", "U+1E955",
     "U+1FBF5"},
    {"6", "U+0666", "U+06F6", "U+07C6", "U+096C", "U+09EC", "U+0A6C",
     "U+0AEC", "U+0B6C", "U+0BEC", "U+0C6C", "U+0CEC", "U+0D6C", "U+0DEC",
     "U+0E56", "U+0ED6", "U+0F26", "U+1046", "U+1096", "U+17E6", "U+1816",
     "U+194C", "U+19D6", "U+1A86", "U+1A96", "U+1B56", "U+1BB6", "U+1C46",
     "U+1C56", "U+A626", "U+A8D6", "U+A906", "U+A9D6", "U+A9F6", "U+AA56",
     "U+ABF6", "U+FF16", "U+104A6", "U+10D36", "U+1106C", "U+110F6",
     "U+1113C", "U+111D6", "U+112F6", "U+11456", "U+114D6", "U+11656",
     "U+116C6", "U+11736", "U+118E6", "U+11956", "U+11C56", "U+11D56",
     "U+11DA6", "U+16A66", "U+16AC6", "U+16B56", "U+1D7D4", "U+1D7DE",
     "U+1D7E8", "U+1D7F2", "U+1D7FC", "U+1E146", "U+1E2F6", "U+1E956",
     "U+1FBF6"},
    {"7", "U+0667", "U+06F7", "U+07C7", "U+096D", "U+09ED", "U+0A6D",
     "U+0AED", "U+0B6D", "U+0BED", "U+0C6D", "U+0CED", "U+0D6D", "U+0DED",
     "U+0E57", "U+0ED7", "U+0F27", "U+1047", "U+1097", "U+17E7", "U+1817",
     "U+194D", "U+19D7", "U+1A87", "U+1A97", "U+1B57", "U+1BB7", "U+1C47",
     "U+1C57", "U+A627", "U+A8D7", "U+A907", "U+A9D7", "U+A9F7", "U+AA57",
     "U+ABF7", "U+FF17", "U+104A7", "U+10D37", "U+1106D", "U+110F7",
     "U+1113D", "U+111D7", "U+112F7", "U+11457", "U+114D7", "U+11657",
     "U+116C7", "U+11737", "U+118E7", "U+11957", "U+11C57", "U+11D57",
     "U+11DA7", "U+16A67", "U+16AC7", "U+16B57", "U+1D7D5", "U+1D7DF",
     "U+1D7E9", "U+1D7F3", "U+1D7FD", "U+1E147", "U+1E2F7", "U+1E957",
     "U+1FBF7"},
    {"8", "U+0668", "U+06F8", "U+07C8", "U+096E", "U+09EE", "U+0A6E",
     "U+0AEE", "U+0B6E", "U+0BEE", "U+0C6E", "U+0CEE", "U+0D6E", "U+0DEE",
     "U+0E58", "U+0ED8", "U+0F28", "U+1048", "U+1098", "U+17E8", "U+1818",
     "U+194E", "U+19D8", "U+1A88", "U+1A98", "U+1B58", "U+1BB8", "U+1C48",
     "U+1C58", "U+A628", "U+A8D8", "U+A908", "U+A9D8", "U+A9F8", "U+AA58",
     "U+ABF8", "U+FF18", "U+104A8", "U+10D38", "U+1106E", "U+110F8",
     "U+1113E", "U+111D8", "U+112F8", "U+11458", "U+114D8", "U+11658",
     "U+116C8", "U+11738", "U+118E8", "U+11958", "U+11C58", "U+11D58",
     "U+11DA8", "U+16A68", "U+16AC8", "U+16B58", "U+1D7D6", "U+1D7E0",
     "U+1D7EA", "U+1D7F4", "U+1D7FE", "U+1E148", "U+1E2F8", "U+1E958",
     "U+1FBF8"},
    {"9", "U+0669", "U+06F9", "U+07C9", "U+096F", "U+09EF", "U+0A6F",
     "U+0AEF", "U+0B6F", "U+0BEF", "U+0C6F", "U+0CEF", "U+0D6F", "U+0DEF",
     "U+0E59", "U+0ED9", "U+0F29", "U+1049", "U+1099", "U+17E9", "U+1819",
     "U+194F", "U+19D9", "U+1A89", "U+1A99", "U+1B59", "U+1BB9", "U+1C49",
     "U+1C59", "U+A629", "U+A8D9", "U+A909", "U+A9D9", "U+A9F9", "U+AA59",
     "U+ABF9", "U+FF19", "U+104A9", "U+10D39", "U+1106F", "U+110F9",
     "U+1113F", "U+111D9", "U+112F9", "U+11459", "U+114D9", "U+11659",
     "U+116C9", "U+11739", "U+118E9", "U+11959", "U+11C59", "U+11D59",
     "U+11DA9", "U+16A69", "U+16AC9", "U+16B59", "U+1D7D7", "U+1D7E1",
     "U+1D7EB", "U+1D7F5", "U+1D7FF", "U+1E149", "U+1E2F9", "U+1E959",
     "U+1FBF9"} >>

IsDecimal(c) == \E v \in 1..10 : c \in DecimalDigits[v]

\* the value of a digit character
DigitValue(c) == CHOOSE v \in 0..9 : c \in DecimalDigits[v + 1]

\* the digits of a Python integer literal body: digits, single underscores between
RECURSIVE DigitsValue(_, _, _)
DigitsValue(s, i, acc) ==
    IF i > Len(s) THEN acc
    ELSE IF IsDecimal(s[i]) THEN DigitsValue(s, i + 1, acc * 10 + DigitValue(s[i]))
    ELSE IF s[i] = "_" /\ i > 1 /\ i < Len(s) /\ IsDecimal(s[i - 1]) /\ IsDecimal(s[i + 1])
         THEN DigitsValue(s, i + 1, acc)
    ELSE -1

\* the white space int() allows around the number: that of str.isspace but for
\* the four separators 0x1c to 0x1f
IntSpace == WhiteSpace \ {"U+001C", "U+001D", "U+001E", "U+001F"}

\* text without the white space of int() at its ends
IntStrip(text) ==
    LET kept == {i \in 1..Len(text) : text[i] \notin IntSpace}
    IN  IF kept = {} THEN <<>> ELSE SubSeq(text, Min(kept), Max(kept))

\* int(text): [ok |-> TRUE, value |-> v], or ok = FALSE for ValueError
ParseInt(text) ==
    LET t == IntStrip(text)
        signed == t # <<>> /\ t[1] \in {"+", "-"}
        body == IF signed THEN Tail(t) ELSE t
        v == IF body = <<>> THEN -1 ELSE DigitsValue(body, 1, 0)
    IN  IF v < 0 THEN [ok |-> FALSE, value |-> 0]
        ELSE [ok |-> TRUE, value |-> IF signed /\ t[1] = "-" THEN 0 - v ELSE v]

\* a plausible slip: the range test admits 0
ValidChoiceFromZero(devs, text) ==
    LET c == ParseInt(text) IN c.ok /\ 0 <= c.value /\ c.value <= Len(devs)

\* lines 62-63: the input is an integer within 1..len(devices)
ValidChoice(devs, text) ==
    LET c == ParseInt(text) IN c.ok /\ 1 <= c.value /\ c.value <= Len(devs)

\* line 64: devices[choice - 1] (Python sequences are 0-based, these 1-based;
\* a negative index counts from the end)
ChosenDevice(devs, text) ==
    LET k == ParseInt(text).value - 1
    IN  IF k >= 0 THEN devs[k + 1] ELSE devs[Len(devs) + k + 1]

-----------------------------------------------------------------------------
(* Command line (lines 203-206). *)

DefaultNumRecentFiles == 5

\* a value of args.num_recent_files: an int, or the empty list that argparse
\* stores when the argument attached to the option is "--"
IntValue(v) == [list |-> FALSE, value |-> v]
EmptyList == [list |-> TRUE, value |-> 0]

ArgsDefault == [n |-> IntValue(DefaultNumRecentFiles), simplified |-> FALSE]

\* the option strings of the parser in the order they were added (-h and
\* --help by the constructor), and the action behind each
OptionStrings ==
    << <<"-","h">>, <<"-","-","h","e","l","p">>, <<"-","n">>, <<"-","-","n","u","m","_","r","e","c","e","n","t","_","f","i","l","e","s">>, <<"-","s">>, <<"-","-","s","i","m","p","l","i","f","i","e","d">> >>

IsOptionString(o) == \E k \in 1..Len(OptionStrings) : OptionStrings[k] = o

OptionAction(o) == IF o \in { <<"-","h">>, <<"-","-","h","e","l","p">> } THEN "help"
                   ELSE IF o \in { <<"-","n">>, <<"-","-","n","u","m","_","r","e","c","e","n","t","_","f","i","l","e","s">> } THEN "store"
                   ELSE "store_true"

\* the argument attached to an option string ("-n5", "--num=5"), if any
NoExplicit == [given |-> FALSE, text |-> <<>>]
Explicit(text) == [given |-> TRUE, text |-> text]

\* what _parse_optional makes of an argument string: a positional argument
\* (None), an option with its action (action "none": no option of the parser),
\* or an abbreviation of several options
Positional == [kind |-> "A", action |-> "none", option |-> <<>>, explicit |-> NoExplicit]
Ambiguous == [kind |-> "ambiguous", action |-> "none", option |-> <<>>,
              explicit |-> NoExplicit]
Optional(action, option, explicit) ==
    [kind |-> "O", action |-> action, option |-> option, explicit |-> explicit]

\* index of the first "=" of s, 0 when there is none
FirstEquals(s) == LET S == {i \in 1..Len(s) : s[i] = "="}
                  IN  IF S = {} THEN 0 ELSE Min(S)

\* _negative_number_matcher, ^-\d+$|^-\d*\.\d+$ ($ also matches before a
\* final line feed)
NegativeNumber(s) ==
    LET t == IF s # <<>> /\ s[Len(s)] = "\n" THEN SubSeq(s, 1, Len(s) - 1) ELSE s
    IN  /\ Len(t) >= 2
        /\ t[1] = "-"
        /\ \/ \A j \in 2..Len(t) : IsDecimal(t[j])
           \/ \E k \in 2..(Len(t) - 1) :
                 /\ t[k] = "."
                 /\ \A j \in 2..Len(t) : j # k => IsDecimal(t[j])

\* _get_option_tuples for an argument string of two characters or more that
\* begins with "-": the options it abbreviates
OptionTuples(arg) ==
    IF arg[2] = "-"
    THEN LET eq == FirstEquals(arg)
             prefix == IF eq > 0 THEN SubSeq(arg, 1, eq - 1) ELSE arg
             explicit == IF eq > 0 THEN Explicit(SubSeq(arg, eq + 1, Len(arg)))
                         ELSE NoExplicit
             hits == SelectSeq(OptionStrings, LAMBDA o : StartsWith(o, prefix))
         IN  [k \in 1..Len(hits) |-> Optional(OptionAction(hits[k]), hits[k], explicit)]
    ELSE LET short == SubSeq(arg, 1, 2)
             hits == SelectSeq(OptionStrings, LAMBDA o : o = short \/ StartsWith(o, arg))
         IN  [k \in 1..Len(hits) |->
                 Optional(OptionAction(hits[k]), hits[k],
                          IF hits[k] = short THEN Explicit(SubSeq(arg, 3, Len(arg)))
                          ELSE NoExplicit)]

\* _parse_optional
ParseOptional(arg) ==
    IF arg = <<>> THEN Positional
    ELSE IF arg[1] # "-" THEN Positional
    ELSE IF IsOptionString(arg) THEN Optional(OptionAction(arg), arg, NoExplicit)
    ELSE IF Len(arg) = 1 THEN Positional
    ELSE IF FirstEquals(arg) > 0 /\ IsOptionString(SubSeq(arg, 1, FirstEquals(arg) - 1))
    THEN LET o == SubSeq(arg, 1, FirstEquals(arg) - 1)
         IN  Optional(OptionAction(o), o, Explicit(SubSeq(arg, FirstEquals(arg) + 1, Len(arg))))
    ELSE LET tuples == OptionTuples(arg)
         IN  IF Len(tuples) > 1 THEN Ambiguous
             ELSE IF Len(tuples) = 1 THEN tuples[1]
             ELSE IF NegativeNumber(arg) THEN Positional
             ELSE IF \E i \in 1..Len(arg) : arg[i] = " " THEN Positional
             ELSE Optional("none", arg, NoExplicit)

UsageError == [error |-> TRUE, actions |-> <<>>, used |-> 0]

\* the loop of consume_optional over one argument string: the actions it
\* names with the argument of each, and how many of the following argument
\* strings it takes; next is the following argument string when that is a
\* positional one.  "-sn5" is -s then -n 5; an argument attached to an option
\* that takes none is an error.
RECURSIVE OptionalActions(_, _, _, _)
OptionalActions(action, option, explicit, next) ==
    IF explicit.given
    THEN IF action = "store"
         THEN [error |-> FALSE, used |-> 0,
               actions |-> << [action |-> action, value |-> explicit.text] >>]
         ELSE IF option[2] # "-" /\ explicit.text # <<>>
         THEN LET o == <<"-", explicit.text[1]>>
                  rest == Tail(explicit.text)
                  r == OptionalActions(OptionAction(o), o,
                                       IF rest = <<>> THEN NoExplicit ELSE Explicit(rest),
                                       next)
              IN  IF IsOptionString(o) /\ ~r.error
                  THEN [r EXCEPT !.actions = << [action |-> action, value |-> <<>>] >> \o @]
                  ELSE UsageError
         ELSE UsageError
    ELSE IF action = "store"
         THEN IF next.given
              THEN [error |-> FALSE, used |-> 1,
                    actions |-> << [action |-> action, value |-> next.text] >>]
              ELSE UsageError
         ELSE [error |-> FALSE, used |-> 0,
               actions |-> << [action |-> action, value |-> <<>>] >>]

\* take_action over the actions of one argument string, in order: -h prints
\* the help and exits with status 0, -n converts its argument with int (a
\* ValueError is a usage error, status 2; the argument "--" is dropped and
\* leaves the empty list), -s stores True
RECURSIVE TakeActions(_, _, _)
TakeActions(actions, k, acc) ==
    IF k > Len(actions) THEN [exit |-> -1, args |-> acc]
    ELSE IF actions[k].action = "help" THEN [exit |-> 0, args |-> acc]
    ELSE IF actions[k].action = "store_true"
    THEN TakeActions(actions, k + 1, [acc EXCEPT !.simplified = TRUE])
    ELSE IF actions[k].value = <<"-","-">>
    THEN TakeActions(actions, k + 1, [acc EXCEPT !.n = EmptyList])
    ELSE IF ParseInt(actions[k].value).ok
    THEN TakeActions(actions, k + 1,
                     [acc EXCEPT !.n = IntValue(ParseInt(actions[k].value).value)])
    ELSE [exit |-> 2, args |-> acc]

\* the argument strings from the i-th on: accepted arguments (exit -1), or an
\* exit status (0 after the help, 2 after a usage error).  Argument strings
\* that are no option of the parser, "--" and all that follows it are
\* reported, with status 2, once every option has been acted on.
RECURSIVE ParseArgsFrom(_, _, _, _)
ParseArgsFrom(argv, i, acc, extras) ==
    IF i > Len(argv) THEN [exit |-> IF extras THEN 2 ELSE -1, args |-> acc]
    ELSE IF argv[i] = <<"-","-">> THEN [exit |-> 2, args |-> acc]
    ELSE LET o == ParseOptional(argv[i])
         IN  IF o.kind = "A" \/ o.action = "none"
             THEN ParseArgsFrom(argv, i + 1, acc, TRUE)
             ELSE LET next == IF /\ i < Len(argv)
                                 /\ argv[i + 1] # <<"-","-">>
                                 /\ ParseOptional(argv[i + 1]).kind = "A"
                              THEN Explicit(argv[i + 1]) ELSE NoExplicit
                      r == OptionalActions(o.action, o.option, o.explicit, next)
                      t == TakeActions(r.actions, 1, acc)
                  IN  IF r.error THEN [exit |-> 2, args |-> acc]
                      ELSE IF t.exit >= 0 THEN t
                      ELSE ParseArgsFrom(argv, i + 1 + r.used, t.args, extras)

\* parser.parse_args(): an ambiguous abbreviation before any "--" is a usage
\* error before any option is acted on
parse_args(argv) ==
    LET marks == {i \in 1..Len(argv) : argv[i] = <<"-","-">>}
        last == IF marks = {} THEN Len(argv) ELSE Min(marks) - 1
    IN  IF \E i \in 1..last : ParseOptional(argv[i]).kind = "ambiguous"
        THEN [exit |-> 2, args |-> ArgsDefault]
        ELSE ParseArgsFrom(argv, 1, ArgsDefault, FALSE)

-----------------------------------------------------------------------------------------------------------------------------------------------------
(* The device, seen through the bridge tool.  Its answers are the inputs   *)
(* of the program: what it holds is fixed below, whether a command         *)
(* succeeds is not.                                                        *)

\* subprocess.run(..., check=True) over k commands in a row: each of them
\* succeeds or raises CalledProcessError, whatever the others did
Outcomes(k) == [1..k -> BOOLEAN]

\* stdout of: adb shell "ls -p <directory>"
DeviceLsP(directory) ==
    IF directory = <<"/","s","d","c","a","r","d","/","P","i","c","t","u","r","e","s">> THEN <<".","t","h","u","m","b","n","a","i","l","s","/","\n","a",".","j","p","g","\n">>
    ELSE IF directory = <<"/","s","d","c","a","r","d","/","M","o","v","i","e","s">> THEN <<"O","l","d","/","\n","s","c","r","e","e","n","-","1",".","m","p","4","\n">>
    ELSE <<>>

\* the names printed by ls -t <directory>, newest first
DeviceLsT(directory) ==
    IF directory = <<"/","s","d","c","a","r","d","/","M","o","v","i","e","s">> THEN << <<"s","c","r","e","e","n","-","2",".","m","p","4">>, <<"O","l","d">>, <<"s","c","r","e","e","n","-","1",".","m","p","4">> >>
    ELSE IF directory = <<"/","s","d","c","a","r","d","/","D","o","c","u","m","e","n","t","s","/","N","a","v","s","u","i","t","e">> THEN << <<"n","a","v",".","l","o","g">> >>
    ELSE IF Contains(<<"/","L","o","g","s","/","C","o","n","s","o","l","e","L","o","g","s">>, directory) THEN << <<"l","o","g",".","t","x","t">> >>
    ELSE <<>>

\* the regular files below a device path that a pull copies, relative to it
\* (the empty path: the path is a regular file itself)
DeviceTree(src) ==
    IF src = <<"/","s","d","c","a","r","d","/","M","o","v","i","e","s","/","O","l","d">> THEN {<<"o",".","m","p","4">>} ELSE {<<>>}

\* stdout of a log command of collect_logs
DeviceLog(command) ==
    IF command = <<"s","h","e","l","l"," ","t","o","p"," ","-","n"," ","1">> THEN <<ESC,"[","1",";","3","2","m","T","a","s","k","s",ESC,"[","0","m"," ","1","\n">>
    ELSE IF command = <<"s","h","e","l","l"," ","i","f","c","o","n","f","i","g">> THEN <<"\n">>
    ELSE IF command = <<"l","o","g","c","a","t"," ","-","d">> THEN <<"I","/","g","c","s",":"," ","u","p","\r","\n">>
    ELSE <<"o","k","\n">>

\* head -n <n> over lines: the first n of them, all but the last -n of them
\* when n is negative
HeadN(lines, n) ==
    IF n >= 0 THEN SubSeq(lines, 1, IF n < Len(lines) THEN n ELSE Len(lines))
    ELSE SubSeq(lines, 1, Len(lines) + n)

\* adb shell "<ls_command> | head -n <num_files>" on a device that is reached:
\* the status of the pipeline is that of head, which rejects the "[]" an
\* empty list is formatted as
DeviceRecent(ls_command, num_files) ==
    LET listed == DeviceLsT(ls_command.ls)
        kept == IF ls_command.grep = <<>> THEN listed
                ELSE SelectSeq(listed, LAMBDA name : StartsWith(name, ls_command.grep))
        head == HeadN(kept, num_files.value)
    IN  IF num_files.list THEN Failed
        ELSE Ok(Flatten([i \in 1..Len(head) |-> head[i] \o <<"\n">>]))

\* adb pull <src> <dst>: the local files written, as <<path, content>>; the
\* copy lands in dst when dst is an existing directory, and is dst otherwise;
\* the content of a copy is named by the device path it comes from
PullTargets(localdirs, src, dst) ==
    LET target == IF dst \in localdirs THEN PathJoin(dst, Basename(src)) ELSE dst
    IN  IF DeviceTree(src) = {<<>>} THEN {<<target, src>>}
        ELSE {<<PathJoin(target, rel), PathJoin(src, rel)>> : rel \in DeviceTree(src)}

\* the files after the copies of targets have landed
WriteFiles(files, targets) ==
    [p \in (DOMAIN files) \cup {f[1] : f \in targets} |->
        IF \E f \in targets : f[1] = p
        THEN (CHOOSE f \in targets : f[1] = p)[2]
        ELSE files[p]]

\* adb pull <src> <dst> with its outcome
AdbPull(st, src, dst, ok) ==
    LET record == [op |-> "pull", src |-> src, dst |-> dst, ok |-> ok]
    IN  IF ~ok THEN [st EXCEPT !.calls = Append(@, record)]
        ELSE [fs |-> WriteFiles(st.fs, PullTargets(st.dirs, src, dst)),
              dirs |-> IF DeviceTree(src) = {<<>>} THEN st.dirs
                       ELSE st.dirs \cup {IF dst \in st.dirs
                                          THEN PathJoin(dst, Basename(src)) ELSE dst},
              calls |-> Append(st.calls, record)]

-----------------------------------------------------------------------------
(* pull_directory (lines 84-104). *)

ThumbnailMarker == <<".","t","h","u","m","b","n","a","i","l","s">>

\* a plausible slip: only an entry that starts with the marker is skipped
IsThumbnailByPrefix(item) == StartsWith(item, ThumbnailMarker)

\* line 95
IsThumbnail(item) == Contains(ThumbnailMarker, item)

\* lines 94-102: the loop over the listed items, from the j-th on;
\* oks[j + 1] tells whether the pull of the j-th item succeeds
RECURSIVE PullItems(_, _, _, _, _, _)
PullItems(st, directory, local_dir, items, j, oks) ==
    IF j > Len(items) THEN st
    ELSE IF IsThumbnail(items[j])
         THEN PullItems(st, directory, local_dir, items, j + 1, oks)
    ELSE PullItems(AdbPull(st, PathJoin(directory, RStripSlash(items[j])),
                           local_dir, oks[j + 1]),
                   directory, local_dir, items, j + 1, oks)

\* pull_directory: stdout is what "ls -p" prints when oks[1] says it succeeds
pull_directory(st, directory, dest_dir, stdout, oks) ==
    LET local_dir == PathJoin(dest_dir, Basename(directory))
        items == run_adb_command(IF oks[1] THEN Ok(stdout) ELSE Failed)
        listed == [fs |-> st.fs,
                   dirs |-> st.dirs \cup {local_dir},
                   calls |-> Append(st.calls, [op |-> "ls -p", src |-> directory,
                                               dst |-> <<>>, ok |-> oks[1]])]
    IN  IF Truthy(items)
        THEN PullItems(listed, directory, local_dir, SplitLines(items), 1, oks)
        ELSE listed

-----------------------------------------------------------------------------
(* pull_recent_files (lines 107-133). *)

MoviesMarker == <<"M","o","v","i","e","s">>
ScreenPrefix == <<"s","c","r","e","e","n","-">>
ConsoleLogsMarker == <<"C","o","n","s","o","l","e","L","o","g","s">>
NavsuiteMarker == <<"N","a","v","s","u","i","t","e">>

\* a plausible slip: the navigation-log rule tried before the console-log rule
LocalPathNavFirst(ts, directory, recent_file, dest_dir) ==
    IF Contains(MoviesMarker, directory) /\ StartsWith(recent_file, ScreenPrefix)
    THEN PathJoin(screen_recordings_dir(ts), recent_file)
    ELSE IF Contains(NavsuiteMarker, directory)
    THEN PathJoin(navsuite_log_dir(ts), recent_file)
    ELSE IF Contains(ConsoleLogsMarker, directory)
    THEN PathJoin(qgc_logs_dir(ts), recent_file)
    ELSE PathJoin(dest_dir, recent_file)

\* lines 118-125: the local destination of a recent file
LocalPath(ts, directory, recent_file, dest_dir) ==
    IF Contains(MoviesMarker, directory) /\ StartsWith(recent_file, ScreenPrefix)
    THEN PathJoin(screen_recordings_dir(ts), recent_file)
    ELSE IF Contains(ConsoleLogsMarker, directory)
    THEN PathJoin(qgc_logs_dir(ts), recent_file)
    ELSE IF Contains(NavsuiteMarker, directory)
    THEN PathJoin(navsuite_log_dir(ts), recent_file)
    ELSE PathJoin(dest_dir, recent_file)

\* lines 113-131: the loop over the listed files, from the j-th on
RECURSIVE PullFiles(_, _, _, _, _, _, _)
PullFiles(st, ts, directory, dest_dir, files, j, oks) ==
    IF j > Len(files) THEN st
    ELSE PullFiles(AdbPull(st, directory \o <<"/">> \o files[j],
                           LocalPath(ts, directory, files[j], dest_dir), oks[j + 1]),
                   ts, directory, dest_dir, files, j + 1, oks)

\* pull_recent_files: listing is what the listing command did, oks[j + 1]
\* tells whether the pull of the j-th listed file succeeds
pull_recent_files(st, ts, directory, dest_dir, listing, oks) ==
    LET recent_files == run_adb_command(listing)
        listed == [st EXCEPT !.calls = Append(@, [op |-> "ls -t", src |-> directory,
                                                  dst |-> <<>>, ok |-> listing.ok])]
    IN  IF Truthy(recent_files)
        THEN PullFiles(listed, ts, directory, dest_dir, SplitLines(recent_files), 1, oks)
        ELSE listed

-----------------------------------------------------------------------------
(* collect_bugreport (lines 135-143), never called: lines 243-244 are comments. *)

collect_bugreport(st, ts, dest_dir, ok) ==
    LET bugreport_zip == PathJoin(dest_dir, <<"b","u","g","r","e","p","o","r","t","_">> \o ts \o <<".","z","i","p">>)
        record == [op |-> "bugreport", src |-> <<>>, dst |-> bugreport_zip, ok |-> ok]
    IN  [fs |-> IF ok THEN WriteFile(st.fs, bugreport_zip, <<"b","u","g","r","e","p","o","r","t">>) ELSE st.fs,
         dirs |-> st.dirs,
         calls |-> Append(st.calls, record)]

-----------------------------------------------------------------------------
(* collect_logs (lines 145-167). *)

log_types == << << <<"l","o","g","c","a","t">>, <<"l","o","g","c","a","t"," ","-","d">> >>,
                << <<"d","e","v","i","c","e","_","i","n","f","o">>, <<"s","h","e","l","l"," ","g","e","t","p","r","o","p">> >>,
                << <<"m","e","m","i","n","f","o">>, <<"s","h","e","l","l"," ","d","u","m","p","s","y","s"," ","m","e","m","i","n","f","o"," ","a","i",".","p","d","w",".","g","c","s">> >>,
                << <<"c","p","u","_","u","s","a","g","e">>, <<"s","h","e","l","l"," ","t","o","p"," ","-","n"," ","1">> >>,
                << <<"n","e","t","w","o","r","k","_","s","t","a","t","s">>, <<"s","h","e","l","l"," ","d","u","m","p","s","y","s"," ","n","e","t","s","t","a","t","s">> >>,
                << <<"n","e","t","w","o","r","k","_","c","o","n","f","i","g">>, <<"s","h","e","l","l"," ","i","f","c","o","n","f","i","g">> >>,
                << <<"b","a","t","t","e","r","y","_","i","n","f","o">>, <<"s","h","e","l","l"," ","d","u","m","p","s","y","s"," ","b","a","t","t","e","r","y">> >>,
                << <<"s","t","o","r","a","g","e","_","i","n","f","o">>, <<"s","h","e","l","l"," ","d","f"," ","-","h">> >>,
                << <<"e","v","e","n","t","_","l","o","g","s">>, <<"s","h","e","l","l"," ","d","u","m","p","s","y","s"," ","a","c","t","i","v","i","t","y">> >> >>

\* line 161
log_path(ts, log_name) == PathJoin(device_info_dir(ts), log_name \o <<"_">> \o ts \o <<".","t","x","t">>)

\* lines 160-167 from the j-th entry of log_types on
RECURSIVE CollectLogsFrom(_, _, _, _)
CollectLogsFrom(st, ts, j, oks) ==
    IF j > Len(log_types) THEN st
    ELSE LET command == log_types[j][2]
             output == run_adb_command(IF oks[j] THEN Ok(DeviceLog(command)) ELSE Failed)
             record == [op |-> "log", src |-> command, dst |-> <<>>, ok |-> oks[j]]
             after == [fs |-> IF Truthy(output)
                              THEN WriteFile(st.fs, log_path(ts, log_types[j][1]), output)
                              ELSE st.fs,
                       dirs |-> st.dirs,
                       calls |-> Append(st.calls, record)]
         IN  CollectLogsFrom(after, ts, j + 1, oks)

collect_logs(st, ts, oks) == CollectLogsFrom(st, ts, 1, oks)

-----------------------------------------------------------------------------
(* get_application_directories (lines 169-181). *)

dirs_to_check == << <<"/","s","d","c","a","r","d","/","A","n","d","r","o","i","d","/","d","a","t","a","/","o","r","g",".","m","a","v","l","i","n","k",".","q","g","r","o","u","n","d","c","o","n","t","r","o","l","/","f","i","l","e","s","/","P","D","W","_","G","C","S">>,
                    <<"/","s","d","c","a","r","d","/","A","n","d","r","o","i","d","/","d","a","t","a","/","a","i",".","p","d","w",".","g","c","s","/","f","i","l","e","s","/","P","D","W","_","G","C","S">> >>

\* stdout and status of: adb shell 'test -d <dir_path> && echo exists'
DeviceTestD(present, ok) == IF present /\ ok THEN Ok(<<"e","x","i","s","t","s","\n">>) ELSE Failed

\* the directories whose probe answers "exists"; present[j] tells whether the
\* j-th directory is on the device, oks[j] whether the command reaches it
get_application_directories(present, oks) ==
    SelectSeq(dirs_to_check,
              LAMBDA d : \E j \in 1..Len(dirs_to_check) :
                  /\ dirs_to_check[j] = d
                  /\ run_adb_command(DeviceTestD(present[j], oks[j])) = <<"e","x","i","s","t","s">>)

ProbeCalls(present, oks) ==
    [j \in 1..Len(dirs_to_check) |->
        [op |-> "test -d", src |-> dirs_to_check[j], dst |-> <<>>,
         ok |-> DeviceTestD(present[j], oks[j]).ok]]

-----------------------------------------------------------------------------
(* create_zip (lines 183-195). *)

\* os.walk(source_dir): the regular files below source_dir
Walk(files, source_dir) == {p \in DOMAIN files : StartsWith(p, source_dir \o <<"/">>)}

\* a plausible slip: the archive name is the basename, not the relative path
ArcNameBasename(file_path, source_dir) == Basename(file_path)

\* line 189: os.path.relpath(file_path, source_dir)
ArcName(file_path, source_dir) == RelPath(file_path, source_dir)

\* no archive has been written yet
NoArchive == [file |-> None, walked |-> {}, metadata |-> None]

\* the result of create_zip: the files after it, and the archive written.
\* The archive holds the entries written during the walk, then metadata.txt.
\* The walk visits the files in the order the file system lists them, which
\* nothing fixes: its entries are kept as a set, in no order.
create_zip(files, source_dir, output_filename, metadata) ==
    [fs |-> WriteFile(files, PathJoin(source_dir, <<"m","e","t","a","d","a","t","a",".","t","x","t">>), metadata),
     archive |-> [file |-> output_filename,
                  walked |-> {[name |-> ArcName(p, source_dir), data |-> files[p]]
                              : p \in Walk(files, source_dir)},
                  metadata |-> metadata]]

\* line 247
Metadata(summary, ts, device) ==
    <<"I","n","c","i","d","e","n","t"," ","S","u","m","m","a","r","y",":"," ">> \o summary \o <<"\n","T","i","m","e","s","t","a","m","p",":"," ">> \o ts \o <<"\n","D","e","v","i","c","e",":"," ">> \o device

-----------------------------------------------------------------------------
(* The main program (lines 198-249). *)

\* longest run of rejected answers to the device prompt
MaxPrompts == 2

\* most commands of the collection stages that the device makes fail and that
\* are followed, sooner or later, by a command that succeeds; the commands
\* that fail after the last one that succeeds are not counted, nor are those
\* that fail whatever the device does
MaxFailures == 2

\* the command fails whatever the device does: a listing piped to head -n []
FailsByItself(c) == c.op = "ls -t" /\ args.n.list

\* the outcomes of the commands of the collection stages among cs whose
\* outcome is the device's, in order
CountedOutcomes(cs) ==
    LET counted == SelectSeq(cs, LAMBDA c : c.op # "test -d" /\ ~FailsByItself(c))
    IN  [i \in 1..Len(counted) |-> counted[i].ok]

\* the failures among bs that a success follows
Recovered(bs) == {i \in 1..Len(bs) : ~bs[i] /\ \E j \in (i + 1)..Len(bs) : bs[j]}

WithinFailureBound(bs) == Cardinality(Recovered(bs)) <= MaxFailures

\* no exit status yet: the process is running
NoStatus == <<>>

\* the clock readings at process start
StartTimes == {[month |-> 1, day |-> 2, year |-> 2024, hour |-> 3, minute |-> 4, second |-> 5]}

\* what "adb devices" may do
AdbDevicesOutcomes ==
    { Failed,
      Ok(<<"L","i","s","t"," ","o","f"," ","d","e","v","i","c","e","s"," ","a","t","t","a","c","h","e","d","\n","\n">>),
      Ok(<<"L","i","s","t"," ","o","f"," ","d","e","v","i","c","e","s"," ","a","t","t","a","c","h","e","d","\n","R","5","8","M","\t","d","e","v","i","c","e","\n","\n">>),
      Ok(<<"L","i","s","t"," ","o","f"," ","d","e","v","i","c","e","s"," ","a","t","t","a","c","h","e","d","\n","R","5","8","M","\t","d","e","v","i","c","e","\n","e","m","u","-","1","\t","u","n","a","u","t","h","o","r","i","z","e","d","\n","Z","Y","2","2","\t","d","e","v","i","c","e","\n","\n">>) }

\* what the operator may type at the device prompt
PromptInputs == { <<"1">>, <<"2">>, <<"3">>, <<"4">>, <<"5">>, <<"0">>, <<"-","1">>, <<"+","1">>, <<" ","2"," ">>, <<"0","2">>,
                  <<"1","_","0">>, <<"1",".","0">>, <<"x">>, <<>>, <<"\f","1">>, <<"U+001F","1">>, <<"U+0662">> }

\* the command lines the program may be started with
Argvs == { <<>>, << <<"-","-","s","i","m","p","l","i","f","i","e","d">>, <<"-","n">>, <<"1">> >>, << <<"-","s","n","1">> >>, << <<"-","-","s","i","m","p">>, <<"-","-","n","u","m","=","1">> >>,
           << <<"-","s","n","-","1">> >>, << <<"-","s","n","-","-">> >>, << <<"-","n">>, <<"m","a","n","y">> >>, << <<"-","s","=","1">> >>, << <<"-","-">>, <<"-","s">> >>,
           << <<"-","h">> >>, << <<"-","-","h","e">> >>, << <<"r","e","p","o","r","t">>, <<"-","h">> >>, << <<"r","e","p","o","r","t">> >> }

Summaries == { <<"c","r","a","s","h">> }

Init == /\ pc = "discover"
        /\ devices = <<>>
        /\ selected_device = None
        /\ reads = 0
        /\ last_input = None
        /\ args = None
        /\ app_directories = <<>>
        /\ recent_file_commands = <<>>
        /\ idx = 0
        /\ user_summary = None
        /\ timestamp \in {Strftime(t) : t \in StartTimes}
        /\ dirs = InitialDirs(timestamp)
        /\ fs = EmptyFS
        /\ archive = NoArchive
        /\ exit_status = NoStatus
        /\ stages = <<>>
        /\ calls = <<>>
        /\ fin = None
        /\ fout = None

\* line 199
Discover ==
    /\ pc = "discover"
    /\ \E outcome \in AdbDevicesOutcomes : devices' = get_connected_devices(outcome)
    /\ stages' = Append(stages, "Discover")
    /\ pc' = "select"
    /\ UNCHANGED <<selected_device, reads, last_input, args, app_directories,
                   recent_file_commands, idx, user_summary, timestamp, dirs,
                   fs, archive, exit_status, calls, fin, fout>>

\* a plausible slip: an empty list is reported but the process is not ended
SelectDeviceNoExit(devs) ==
    IF Len(devs) = 1
    THEN [next |-> "args", status |-> NoStatus, device |-> devs[1]]
    ELSE IF devs = <<>>
    THEN [next |-> "args", status |-> NoStatus, device |-> None]
    ELSE [next |-> "prompt", status |-> NoStatus, device |-> None]

\* select_device up to its first prompt (lines 50-59): sys.exit(1) on an empty
\* list, the only device without a prompt, else the numbered list
SelectDeviceStart(devs) ==
    IF devs = <<>>
    THEN [next |-> "exit", status |-> <<1>>, device |-> None]
    ELSE IF Len(devs) = 1
    THEN [next |-> "args", status |-> NoStatus, device |-> devs[1]]
    ELSE [next |-> "prompt", status |-> NoStatus, device |-> None]

\* line 200, up to the first prompt
SelectDevice ==
    /\ pc = "select"
    /\ stages' = Append(stages, "Select")
    /\ LET r == SelectDeviceStart(devices)
       IN  /\ exit_status' = r.status
           /\ pc' = r.next
           /\ selected_device' = r.device
    /\ UNCHANGED <<devices, reads, last_input, args, app_directories,
                   recent_file_commands, idx, user_summary, timestamp, dirs,
                   fs, archive, calls, fin, fout>>

\* one turn of the loop of lines 60-68: an answer is read and judged
Prompt ==
    /\ pc = "prompt"
    /\ \E text \in PromptInputs :
          /\ ValidChoice(devices, text) \/ reads < MaxPrompts
          /\ last_input' = text
          /\ IF ValidChoice(devices, text)
             THEN selected_device' = ChosenDevice(devices, text) /\ pc' = "args"
             ELSE UNCHANGED selected_device /\ pc' = "prompt"
    /\ reads' = reads + 1
    /\ UNCHANGED <<devices, args, app_directories, recent_file_commands, idx,
                   user_summary, timestamp, dirs, fs, archive, exit_status, stages,
                   calls, fin, fout>>

\* lines 203-206; the locals of select_device are gone by now
ParseArgs ==
    /\ pc = "args"
    /\ \E argv \in Argvs :
          LET r == parse_args(argv)
          IN  IF r.exit >= 0
              THEN exit_status' = <<r.exit>> /\ pc' = "exit" /\ UNCHANGED args
              ELSE args' = r.args /\ pc' = "probe" /\ UNCHANGED exit_status
    /\ reads' = 0
    /\ last_input' = None
    /\ UNCHANGED <<devices, selected_device, app_directories, recent_file_commands,
                   idx, user_summary, timestamp, dirs, fs, archive, stages,
                   calls, fin, fout>>

\* lines 212-222
RecentFileCommands(app_dirs) ==
    << [dir |-> <<"/","s","d","c","a","r","d","/","M","o","v","i","e","s">>, ls |-> <<"/","s","d","c","a","r","d","/","M","o","v","i","e","s">>, grep |-> ScreenPrefix],
       [dir |-> <<"/","s","d","c","a","r","d","/","D","o","c","u","m","e","n","t","s","/","N","a","v","s","u","i","t","e">>, ls |-> <<"/","s","d","c","a","r","d","/","D","o","c","u","m","e","n","t","s","/","N","a","v","s","u","i","t","e">>,
        grep |-> <<>>] >>
    \o [j \in 1..Len(app_dirs) |->
          [dir |-> app_dirs[j] \o <<"/","L","o","g","s","/","C","o","n","s","o","l","e","L","o","g","s">>,
           ls |-> app_dirs[j] \o <<"/","L","o","g","s","/","C","o","n","s","o","l","e","L","o","g","s">>, grep |-> <<>>]]

\* lines 209-224
Probe ==
    /\ pc = "probe"
    /\ \E present \in [1..Len(dirs_to_check) -> BOOLEAN] :
       \E oks \in Outcomes(Len(dirs_to_check)) :
          /\ app_directories' = get_application_directories(present, oks)
          /\ calls' = calls \o ProbeCalls(present, oks)
    /\ recent_file_commands' = RecentFileCommands(app_directories')
    /\ stages' = Append(stages, "Probe")
    /\ pc' = "summary"
    /\ UNCHANGED <<devices, selected_device, reads, last_input, args, idx,
                   user_summary, timestamp, dirs, fs, archive, exit_status, fin, fout>>

\* a plausible slip: the simplified flag is not consulted
AfterSummaryAlwaysFull(simplified) == "fulldirs"

\* line 231: the full-directory stage is skipped in simplified mode
AfterSummary(simplified) == IF simplified THEN "recent" ELSE "fulldirs"

\* lines 227-231
Summarize ==
    /\ pc = "summary"
    /\ \E text \in Summaries : user_summary' = text
    /\ stages' = Append(stages, "Summarize")
    /\ pc' = AfterSummary(args.simplified)
    /\ idx' = 1
    /\ UNCHANGED <<devices, selected_device, reads, last_input, args, app_directories,
                   recent_file_commands, timestamp, dirs, fs, archive,
                   exit_status, calls, fin, fout>>

\* lines 232-233: one call of pull_directory
PullDirectory ==
    /\ pc = "fulldirs"
    /\ LET directory == directories_to_pull[idx]
           stdout == DeviceLsP(directory)
       IN  \E oks \in Outcomes(1 + Len(SplitLines(Strip(stdout)))) :
              LET st == pull_directory([fs |-> fs, dirs |-> dirs, calls |-> calls],
                                       directory, report_dir(timestamp), stdout, oks)
              IN  /\ WithinFailureBound(CountedOutcomes(st.calls))
                  /\ fs' = st.fs
                  /\ dirs' = st.dirs
                  /\ calls' = st.calls
    /\ stages' = IF idx = 1 THEN Append(stages, "CollectFullDirs") ELSE stages
    /\ IF idx < Len(directories_to_pull)
       THEN idx' = idx + 1 /\ pc' = "fulldirs"
       ELSE idx' = 1 /\ pc' = "recent"
    /\ UNCHANGED <<devices, selected_device, reads, last_input, args, app_directories,
                   recent_file_commands, user_summary, timestamp, archive,
                   exit_status, fin, fout>>

\* lines 236-237: one call of pull_recent_files
PullRecentFiles ==
    /\ pc = "recent"
    /\ LET source == recent_file_commands[idx]
           answer == DeviceRecent(source, args.n)
       IN  \E oks \in Outcomes(1 + Len(SplitLines(Strip(answer.stdout)))) :
              LET st == pull_recent_files([fs |-> fs, dirs |-> dirs, calls |-> calls],
                                          timestamp, source.dir, report_dir(timestamp),
                                          IF oks[1] THEN answer ELSE Failed, oks)
              IN  /\ WithinFailureBound(CountedOutcomes(st.calls))
                  /\ fs' = st.fs
                  /\ dirs' = st.dirs
                  /\ calls' = st.calls
    /\ stages' = IF idx = 1 THEN Append(stages, "CollectRecentFiles") ELSE stages
    /\ IF idx < Len(recent_file_commands)
       THEN idx' = idx + 1 /\ pc' = "recent"
       ELSE idx' = 0 /\ pc' = "info"
    /\ UNCHANGED <<devices, selected_device, reads, last_input, args, app_directories,
                   recent_file_commands, user_summary, timestamp, archive,
                   exit_status, fin, fout>>

\* a plausible slip: step 5 enabled (lines 243-244 uncommented)
Step5Enabled(st, ts, simplified, ok) ==
    IF ~simplified THEN collect_bugreport(st, ts, report_dir(ts), ok) ELSE st

\* lines 242-244: step 5 is commented out
Step5(st, ts, simplified, ok) == st

\* lines 240-244
CollectInfo ==
    /\ pc = "info"
    /\ LET before == CountedOutcomes(calls)
       IN  \E oks \in Outcomes(Len(log_types)) :
              LET st == Step5(collect_logs([fs |-> fs, dirs |-> dirs, calls |-> calls],
                                           timestamp, oks),
                              timestamp, args.simplified, TRUE)
              IN  /\ WithinFailureBound(before \o oks)
                  /\ fs' = st.fs
                  /\ dirs' = st.dirs
                  /\ calls' = st.calls
    /\ stages' = Append(stages, "CollectInfo")
    /\ pc' = "package"
    /\ UNCHANGED <<devices, selected_device, reads, last_input, args, app_directories,
                   recent_file_commands, idx, user_summary, timestamp, archive,
                   exit_status, fin, fout>>

\* line 248
zip_file_name(ts) == PathJoin(incident_dir, <<"Q","A","_","b","u","g","_","r","e","p","o","r","t","_">> \o ts \o <<".","z","i","p">>)

\* lines 247-249, and the end of the script
Package ==
    /\ pc = "package"
    /\ LET z == create_zip(fs, report_dir(timestamp), zip_file_name(timestamp),
                           Metadata(user_summary, timestamp, selected_device))
       IN  fs' = z.fs /\ archive' = z.archive
    /\ stages' = Append(stages, "Package")
    /\ exit_status' = <<0>>
    /\ pc' = "done"
    /\ UNCHANGED <<devices, selected_device, reads, last_input, args, app_directories,
                   recent_file_commands, idx, user_summary, timestamp, dirs,
                   calls, fin, fout>>

Next == \/ Discover
        \/ SelectDevice
        \/ Prompt
        \/ ParseArgs
        \/ Probe
        \/ Summarize
        \/ PullDirectory
        \/ PullRecentFiles
        \/ CollectInfo
        \/ Package

Spec == Init /\ [][Next]_vars

\* every variable of the main program at rest, for the function-level specifications
PipelineIdle ==
    /\ pc = "idle"
    /\ devices = <<>>
    /\ selected_device = None
    /\ reads = 0
    /\ last_input = None
    /\ args = None
    /\ app_directories = <<>>
    /\ recent_file_commands = <<>>
    /\ idx = 0
    /\ user_summary = None
    /\ timestamp = None
    /\ dirs = {}
    /\ fs = EmptyFS
    /\ archive = NoArchive
    /\ exit_status = NoStatus
    /\ stages = <<>>
    /\ calls = <<>>
-----------------------------------------------------------------------------
(* Function-level specification: run_adb_command on a successful command.  *)
(* The captured standard output is drawn from the texts made of at most    *)
(* MaxPieces pieces.                                                        *)

Pending == <<"<pending>">>

AnsiPieces == { <<ESC>>, <<"[">>, <<"m">>, <<";">>, <<"1">>, <<"a">>, <<" ">>, <<"\n">>, <<"U+0085">>,
                <<ESC,"[","1",";","2","m">>, <<"1",";","2","m">>, <<ESC,"[">>, <<ESC,"[","0","m">> }

RECURSIVE Texts(_, _)
Texts(pieces, n) ==
    IF n = 0 THEN {<<>>}
    ELSE LET shorter == Texts(pieces, n - 1)
         IN  shorter \cup {t \o p : t \in shorter, p \in pieces}

InitAnsi == /\ PipelineIdle
            /\ fin \in Texts(AnsiPieces, MaxPieces)
            /\ fout = Pending

RunAdbCommand == /\ fout = Pending
                 /\ fout' = run_adb_command(Ok(fin))
                 /\ UNCHANGED <<pvars, fin>>

NextAnsi == RunAdbCommand

SpecAnsi == InitAnsi /\ [][NextAnsi]_vars

\* s[i..j] is ESC [ <digits> ; <digits> m
IsFormAt(s, i, j) ==
    /\ 1 <= i /\ i + 5 <= j /\ j <= Len(s)
    /\ s[i] = ESC /\ s[i + 1] = "[" /\ s[j] = "m"
    /\ \E k \in (i + 3)..(j - 2) :
          /\ s[k] = ";"
          /\ \A x \in ((i + 2)..(j - 1)) \ {k} : s[x] \in Digits

\* s[i..j] is ESC [ <digits and semicolons, possibly none> m
IsAnsiAt(s, i, j) ==
    /\ 1 <= i /\ i + 2 <= j /\ j <= Len(s)
    /\ s[i] = ESC /\ s[i + 1] = "[" /\ s[j] = "m"
    /\ \A x \in (i + 2)..(j - 1) : s[x] \in AnsiParams

HasForm(s) == \E i, j \in 1..Len(s) : IsFormAt(s, i, j)
HasAnsi(s) == \E i, j \in 1..Len(s) : IsAnsiAt(s, i, j)

FormPositions(s) ==
    {p \in 1..Len(s) : \E i, j \in 1..Len(s) : i <= p /\ p <= j /\ IsFormAt(s, i, j)}
AnsiPositions(s) ==
    {p \in 1..Len(s) : \E i, j \in 1..Len(s) : i <= p /\ p <= j /\ IsAnsiAt(s, i, j)}

\* s without the characters at the positions in drop
RECURSIVE Without(_, _, _)
Without(s, drop, i) ==
    IF i > Len(s) THEN <<>>
    ELSE (IF i \in drop THEN <<>> ELSE <<s[i]>>) \o Without(s, drop, i + 1)

\* t is s without its leading and trailing whitespace
IsStripOf(t, s) ==
    \E a \in 1..(Len(s) + 1) : \E b \in 0..Len(s) :
        /\ t = SubSeq(s, a, b)
        /\ \A x \in 1..(a - 1) : IsSpace(s[x])
        /\ \A x \in (b + 1)..Len(s) : IsSpace(s[x])
        /\ (a <= b => ~IsSpace(s[a]) /\ ~IsSpace(s[b]))
        /\ (a > b => a = b + 1 /\ (b = 0 \/ b = Len(s)))

\* C4 as stated: if the output holds sequences ESC[<digits>;<digits>m, the
\* cleaned result holds none and is the output with exactly their bytes removed.
C4_AsStated ==
    (fout # Pending /\ HasForm(fin)) =>
        /\ ~HasForm(fout)
        /\ fout = Without(fin, FormPositions(fin), 1)

\* C4 amended: the cleaned result is the output with its leading and trailing
\* whitespace stripped and then exactly the bytes of every sequence
\* ESC[<digits and semicolons>m removed; it holds no such sequence whenever
\* every ESC of the stripped output begins one.
C4_StripThenRemove ==
    fout # Pending =>
        \E t \in {SubSeq(fin, a, b) : a \in 1..(Len(fin) + 1), b \in 0..Len(fin)} :
            /\ IsStripOf(t, fin)
            /\ fout = Without(t, AnsiPositions(t), 1)
            /\ ((\A p \in 1..Len(t) : t[p] = ESC => p \in AnsiPositions(t))
                  => ~HasAnsi(fout))

\* a stripped output with a sequence of the stated form between other bytes
C4_Witness ==
    /\ fout # Pending
    /\ HasForm(fin)
    /\ fout # <<>>
    /\ Len(fout) < Len(Strip(fin))
    /\ Len(Strip(fin)) < Len(fin)

-----------------------------------------------------------------------------
(* Properties of the main program. *)

StageOrder == <<"Discover", "Select", "Probe", "Summarize", "CollectFullDirs",
                "CollectRecentFiles", "CollectInfo", "Package">>

Rank(stage) == CHOOSE i \in 1..Len(StageOrder) : StageOrder[i] = stage

Terminated == pc \in {"done", "exit"}

\* the command line has been parsed and accepted (line 206 returned)
ArgsAccepted == pc \notin {"discover", "select", "prompt", "args", "exit"}

\* the local folders pull_directory copies into
FullCopyDirs == {PathJoin(report_dir(timestamp), Basename(directories_to_pull[i]))
                 : i \in 1..Len(directories_to_pull)}

\* the stage a device command belongs to, full being the local folders that
\* pull_directory copies into
CallStage(c, full) ==
    IF c.op = "test -d" THEN "Probe"
    ELSE IF c.op = "ls -p" THEN "CollectFullDirs"
    ELSE IF c.op = "ls -t" THEN "CollectRecentFiles"
    ELSE IF c.op = "log" THEN "CollectInfo"
    ELSE IF c.op = "pull"
    THEN (IF c.dst \in full THEN "CollectFullDirs" ELSE "CollectRecentFiles")
    ELSE "Bugreport"

\* C1: the stages start in the order Discover, Select, Probe, Summarize,
\* Collect(full-dirs), Collect(recent-files), Collect(info), Package, each at
\* most once and each directly after its predecessor (the full-directory stage
\* is passed over in simplified mode); the device commands of a stage all come
\* after those of the stages before it; and no bug-report command is ever
\* issued nor a bug-report file written, with or without the simplified flag.
C1_LinearStages ==
    LET full == FullCopyDirs
        started == {stages[k] : k \in 1..Len(stages)}
    IN  /\ \A i \in 1..Len(stages) : \E k \in 1..Len(StageOrder) : StageOrder[k] = stages[i]
        /\ (stages # <<>> => stages[1] = "Discover")
        /\ \A i \in 1..(Len(stages) - 1) :
              \/ Rank(stages[i + 1]) = Rank(stages[i]) + 1
              \/ /\ stages[i] = "Summarize"
                 /\ stages[i + 1] = "CollectRecentFiles"
                 /\ args.simplified
        /\ \A i \in 1..Len(calls) : CallStage(calls[i], full) \in started
        /\ \A i \in 1..(Len(calls) - 1) :
              Rank(CallStage(calls[i], full)) <= Rank(CallStage(calls[i + 1], full))
        /\ \A i \in 1..Len(calls) : calls[i].op # "bugreport"
        /\ PathJoin(report_dir(timestamp), <<"b","u","g","r","e","p","o","r","t","_">> \o timestamp \o <<".","z","i","p">>)
               \notin DOMAIN fs
        /\ (pc = "done" => stages[Len(stages)] = "Package")

\* a complete run, not simplified, in which some device command failed
C1_Witness ==
    /\ pc = "done"
    /\ stages = StageOrder
    /\ ~args.simplified
    /\ \E i \in 1..Len(calls) : ~calls[i].ok

\* C2 as stated: with no device the process ends with a non-zero status before
\* the probe; with at least one device it ends packaged with status zero.
C2_AsStated ==
    Terminated =>
        IF devices = <<>>
        THEN /\ exit_status # <<0>>
             /\ stages = <<"Discover", "Select">>
             /\ calls = <<>> /\ archive = NoArchive
        ELSE /\ exit_status = <<0>>
             /\ archive # NoArchive

\* the entries of an archive: those of the walk and, last, metadata.txt
Entries(a) ==
    a.walked \cup (IF a = NoArchive THEN {}
                   ELSE {[name |-> <<"m","e","t","a","d","a","t","a",".","t","x","t">>, data |-> a.metadata]})

\* the archive holds an entry of that name; the entry read under a name is the
\* last one written under it
HasEntry(a, name) == \E e \in Entries(a) : e.name = name
ReadEntry(a, name) ==
    IF name = <<"m","e","t","a","d","a","t","a",".","t","x","t">> THEN a.metadata
    ELSE (CHOOSE e \in a.walked : e.name = name).data

\* the step the program is at can be taken: its loop index names an entry
\* and the outcome in which its commands fail is among those explored
CanStep ==
    CASE pc = "probe" -> Outcomes(Len(dirs_to_check)) # {}
      [] pc = "summary" -> Summaries # {}
      [] pc = "fulldirs" -> /\ idx \in 1..Len(directories_to_pull)
                            /\ WithinFailureBound(CountedOutcomes(calls) \o <<FALSE>>)
      [] pc = "recent" -> /\ idx \in 1..Len(recent_file_commands)
                          /\ WithinFailureBound(CountedOutcomes(calls) \o <<FALSE>>)
      [] pc = "info" -> WithinFailureBound(CountedOutcomes(calls)
                                           \o [j \in 1..Len(log_types) |-> FALSE])
      [] pc = "package" -> user_summary # None /\ selected_device # None
      [] OTHER -> FALSE

\* C2 amended: with no device the process ends with status 1 right after the
\* selection, before the probe, the summary prompt, any collection and the
\* packaging.  With at least one device, once a device is selected and the
\* command line is accepted, the run is never cut short, whatever commands
\* failed: it has not exited and its next step can be taken until it is
\* packaged, and it ends only packaged with status zero.  A command line that
\* the parser rejects ends the process after the selection with status 2 (0
\* after --help), before the probe.
C2_ExitStatus ==
    /\ devices = <<>> => pc \in {"discover", "select", "exit"}
    /\ (pc = "exit" /\ devices = <<>>) =>
          /\ exit_status = <<1>>
          /\ stages = <<"Discover", "Select">>
          /\ calls = <<>> /\ archive = NoArchive /\ user_summary = None
    /\ (pc = "exit" /\ devices # <<>>) =>
          /\ exit_status \in {<<0>>, <<2>>}
          /\ selected_device # None
          /\ stages = <<"Discover", "Select">>
          /\ calls = <<>> /\ archive = NoArchive /\ user_summary = None
    /\ pc = "done" =>
          /\ exit_status = <<0>>
          /\ archive # NoArchive
          /\ HasEntry(archive, <<"m","e","t","a","d","a","t","a",".","t","x","t">>)
          /\ stages[Len(stages)] = "Package"
    /\ pc \notin {"done", "exit"} => exit_status = NoStatus /\ archive = NoArchive
    /\ (ArgsAccepted /\ pc # "done") => CanStep

\* a packaged run in which every log command failed, and a run without devices
C2_Witness ==
    /\ pc = "done"
    /\ exit_status = <<0>>
    /\ Len(devices) > 1
    /\ \A i \in 1..Len(calls) : calls[i].op = "log" => ~calls[i].ok

\* no trace of the full-directory copy: no listing, no local folder, no file, no entry
NoFullCopy ==
    /\ \A i \in 1..Len(calls) : CallStage(calls[i], FullCopyDirs) # "CollectFullDirs"
    /\ \A d \in dirs : \A top \in FullCopyDirs : d # top /\ ~StartsWith(d, top \o <<"/">>)
    /\ \A p \in DOMAIN fs : \A top \in FullCopyDirs : ~StartsWith(p, top \o <<"/">>)
    /\ \A e \in Entries(archive) :
          /\ ~StartsWith(e.name, <<"P","i","c","t","u","r","e","s","/">>)
          /\ ~StartsWith(e.name, <<"M","o","v","i","e","s","/">>)

\* the recent-file stage listed every source, the log stage ran every command
RecentAndInfoRan ==
    /\ \E k \in 1..Len(stages) : stages[k] = "CollectRecentFiles"
    /\ \E k \in 1..Len(stages) : stages[k] = "CollectInfo"
    /\ \A j \in 1..Len(recent_file_commands) :
          \E i \in 1..Len(calls) :
              calls[i].op = "ls -t" /\ calls[i].src = recent_file_commands[j].dir
    /\ \A j \in 1..Len(log_types) :
          \E i \in 1..Len(calls) : calls[i].op = "log" /\ calls[i].src = log_types[j][2]

\* C6 as stated: a simplified run copies no Pictures or Movies folder, still
\* runs the recent-file and log stages, and its archive holds device-info logs
\* and metadata.txt.
C6_AsStated ==
    (pc = "done" /\ args.simplified) =>
        /\ NoFullCopy
        /\ RecentAndInfoRan
        /\ \E e \in Entries(archive) : StartsWith(e.name, <<"D","e","v","i","c","e"," ","I","n","f","o","/">>)
        /\ HasEntry(archive, <<"m","e","t","a","d","a","t","a",".","t","x","t">>)

\* what a log command that succeeded leaves in its file: nothing when empty
LogText(command) == run_adb_command(Ok(DeviceLog(command)))

\* C6 amended: a simplified run copies no Pictures or Movies folder, still
\* runs the recent-file and log stages, and its archive holds metadata.txt and
\* the device-info log of every log command that succeeded with some output
\* (none when every log command failed).
C6_Simplified ==
    (pc = "done" /\ args.simplified) =>
        /\ NoFullCopy
        /\ RecentAndInfoRan
        /\ \A j \in 1..Len(log_types) :
              LET name == RelPath(log_path(timestamp, log_types[j][1]), report_dir(timestamp))
                  ran == \E i \in 1..Len(calls) :
                            calls[i].op = "log" /\ calls[i].src = log_types[j][2] /\ calls[i].ok
              IN  IF ran /\ LogText(log_types[j][2]) # <<>>
                  THEN HasEntry(archive, name)
                       /\ ReadEntry(archive, name) = LogText(log_types[j][2])
                  ELSE ~HasEntry(archive, name)
        /\ HasEntry(archive, <<"m","e","t","a","d","a","t","a",".","t","x","t">>)
        /\ ReadEntry(archive, <<"m","e","t","a","d","a","t","a",".","t","x","t">>)
               = Metadata(user_summary, timestamp, selected_device)

\* a simplified run whose archive holds recent files and device-info logs
C6_Witness ==
    /\ pc = "done"
    /\ args.simplified
    /\ HasEntry(archive, <<"S","c","r","e","e","n"," ","R","e","c","o","r","d","i","n","g","s","/","s","c","r","e","e","n","-","2",".","m","p","4">>)
    /\ \E e \in Entries(archive) : StartsWith(e.name, <<"D","e","v","i","c","e"," ","I","n","f","o","/">>)
    /\ \E i \in 1..Len(calls) : calls[i].op = "log" /\ ~calls[i].ok

\* the local files a device command leaves when it succeeds
Produced(c) ==
    IF c.op = "pull" THEN PullTargets(dirs, c.src, c.dst)
    ELSE IF c.op = "log" /\ LogText(c.src) # <<>>
    THEN {<<log_path(timestamp, log_types[CHOOSE j \in 1..Len(log_types) :
                                               log_types[j][2] = c.src][1]),
            LogText(c.src)>>}
    ELSE {}

InArchive(path, data) ==
    \E e \in Entries(archive) :
        e.name = RelPath(path, report_dir(timestamp)) /\ e.data = data

\* every item of every listing that succeeded was tried, failed items included
AllItemsAttempted ==
    /\ \A i \in 1..Len(calls) :
          (calls[i].op = "ls -p" /\ calls[i].ok) =>
              LET items == SplitLines(run_adb_command(Ok(DeviceLsP(calls[i].src))))
              IN  \A j \in 1..Len(items) :
                      IsThumbnail(items[j]) \/
                      \E k \in (i + 1)..Len(calls) :
                          /\ calls[k].op = "pull"
                          /\ calls[k].src = PathJoin(calls[i].src, RStripSlash(items[j]))
    /\ \A s \in 1..Len(recent_file_commands) :
       \A i \in 1..Len(calls) :
          (calls[i].op = "ls -t" /\ calls[i].ok /\ calls[i].src = recent_file_commands[s].dir) =>
              LET files == SplitLines(run_adb_command(
                               DeviceRecent(recent_file_commands[s], args.n)))
              IN  \A j \in 1..Len(files) :
                      \E k \in (i + 1)..Len(calls) :
                          /\ calls[k].op = "pull"
                          /\ calls[k].src = calls[i].src \o <<"/">> \o files[j]
    /\ \A j \in 1..Len(log_types) :
          \E i \in 1..Len(calls) : calls[i].op = "log" /\ calls[i].src = log_types[j][2]

\* C10 as stated: whatever commands fail, every item is still tried, the run
\* is packaged, and the archive holds exactly what the commands that succeeded
\* produced: each of their files, and beside metadata.txt nothing else.
C10_AsStated ==
    pc = "done" =>
          /\ AllItemsAttempted
          /\ \A i \in 1..Len(calls) :
                calls[i].ok => \A f \in Produced(calls[i]) : InArchive(f[1], f[2])
          /\ \A e \in archive.walked :
                \E i \in 1..Len(calls) :
                    /\ calls[i].ok
                    /\ \E f \in Produced(calls[i]) :
                          /\ RelPath(f[1], report_dir(timestamp)) = e.name
                          /\ f[2] = e.data

\* What does hold: the file a command that succeeded produced is in the
\* archive unless a later command that succeeded wrote the same local path.
LastWriterWins ==
    pc = "done" =>
          /\ AllItemsAttempted
          /\ \A i \in 1..Len(calls) :
                calls[i].ok =>
                    \A f \in Produced(calls[i]) :
                        \/ InArchive(f[1], f[2])
                        \/ \E k \in (i + 1)..Len(calls) :
                              calls[k].ok /\ \E g \in Produced(calls[k]) : g[1] = f[1]
          /\ \A e \in archive.walked :
                \E i \in 1..Len(calls) :
                    /\ calls[i].ok
                    /\ \E f \in Produced(calls[i]) :
                          /\ RelPath(f[1], report_dir(timestamp)) = e.name
                          /\ f[2] = e.data

-----------------------------------------------------------------------------
(* select_device over K >= 1 devices. *)

\* most devices attached at once
MaxDevices == 3

Serials == << <<"R","5","8","M">>, <<"Z","Y","2","2">>, <<"e","m","u","-","5","5","5","4">>, <<"0","A","1">> >>

\* the sequences of one to MaxDevices distinct attached devices
DeviceLists ==
    UNION {{[i \in 1..k |-> Serials[f[i]]] :
               f \in {g \in [1..k -> 1..Len(Serials)] :
                          \A i, j \in 1..k : i # j => g[i] # g[j]}}
           : k \in 1..MaxDevices}

\* main has called select_device(devices) with a non-empty list
InitSelect ==
    /\ pc = "select"
    /\ devices \in DeviceLists
    /\ stages = <<"Discover">>
    /\ selected_device = None
    /\ reads = 0
    /\ last_input = None
    /\ args = None
    /\ app_directories = <<>>
    /\ recent_file_commands = <<>>
    /\ idx = 0
    /\ user_summary = None
    /\ timestamp = None
    /\ dirs = {}
    /\ fs = EmptyFS
    /\ archive = NoArchive
    /\ exit_status = NoStatus
    /\ calls = <<>>
    /\ fin = None
    /\ fout = None

NextSelect == SelectDevice \/ Prompt

SpecSelect == InitSelect /\ [][NextSelect]_vars

\* the text is a number within 1..k
IsChoice(text, k) == ParseInt(text).ok /\ ParseInt(text).value \in 1..k

\* C3: with one device select_device returns it without reading any input;
\* with several it stays at the prompt, neither returning nor exiting, after
\* every answer that is not a number within 1..K, and when it has returned the
\* last answer read was a number c within 1..K and the result is the c-th
\* device of the list; the result is always a member of the list.
C3_SelectDevice ==
    LET K == Len(devices)
    IN  /\ exit_status = NoStatus
        /\ pc \in {"select", "prompt", "args"}
        /\ K = 1 => /\ reads = 0
                    /\ pc # "prompt"
                    /\ pc = "args" => selected_device = devices[1]
        /\ (reads > 0 /\ ~IsChoice(last_input, K)) =>
              /\ pc = "prompt"
              /\ selected_device = None
        /\ (pc = "args" /\ K > 1) =>
              /\ reads > 0
              /\ IsChoice(last_input, K)
              /\ selected_device = devices[ParseInt(last_input).value]
        /\ pc = "args" => \E i \in 1..K : devices[i] = selected_device
        /\ pc # "args" => selected_device = None

\* the third of three devices chosen after a rejected answer
C3_Witness ==
    /\ pc = "args"
    /\ Len(devices) = 3
    /\ reads > 1
    /\ selected_device = devices[3]

-----------------------------------------------------------------------------
(* get_connected_devices over a header and a list of lines. *)

\* most lines after the header
MaxLines == 3

Header == <<"L","i","s","t"," ","o","f"," ","d","e","v","i","c","e","s"," ","a","t","t","a","c","h","e","d">>

\* lines the bridge tool may print after the header
ListingLines == { <<"R","5","8","M","\t","d","e","v","i","c","e">>, <<"Z","Y","2","2","U+00A0","d","e","v","i","c","e"," ","u","s","b",":","1","-","1">>, <<"e","m","u","-","1","\t","o","f","f","l","i","n","e">>,
                  <<" "," ","0","A","1"," "," ","d","e","v","i","c","e">>, <<"m","y","d","e","v","i","c","e","\t","u","n","a","u","t","h","o","r","i","z","e","d">>, <<>> }

RECURSIVE SeqsUpTo(_, _)
\* the sequences over S of length at most n
SeqsUpTo(S, n) ==
    IF n = 0 THEN {<<>>}
    ELSE LET shorter == SeqsUpTo(S, n - 1)
         IN  shorter \cup {Append(s, x) : s \in {t \in shorter : Len(t) = n - 1}, x \in S}

\* the output: the header, then every line, each ended by a newline
ListingText(lines) ==
    Header \o <<"\n">> \o Flatten([i \in 1..Len(lines) |-> lines[i] \o <<"\n">>])

InitDevices ==
    /\ PipelineIdle
    /\ fin \in SeqsUpTo(ListingLines, MaxLines)
    /\ fout = Pending

GetConnectedDevices ==
    /\ fout = Pending
    /\ fout' = get_connected_devices(Ok(ListingText(fin)))
    /\ UNCHANGED <<pvars, fin>>

NextDevices == GetConnectedDevices

SpecDevices == InitDevices /\ [][NextDevices]_vars

LivenessMarker == <<"d","e","v","i","c","e">>

\* the line holds the marker at some position
HasMarker(line) ==
    \E i \in 1..Len(line) :
        /\ i + Len(LivenessMarker) - 1 <= Len(line)
        /\ \A j \in 1..Len(LivenessMarker) : line[i + j - 1] = LivenessMarker[j]

\* the first maximal run of characters of the line that are not white space
FirstToken(line) ==
    LET a == CHOOSE i \in 1..Len(line) :
                 ~IsSpace(line[i]) /\ \A j \in 1..(i - 1) : IsSpace(line[j])
        b == CHOOSE i \in a..Len(line) :
                 /\ \A j \in a..i : ~IsSpace(line[j])
                 /\ i = Len(line) \/ IsSpace(line[i + 1])
    IN  [j \in 1..(b - a + 1) |-> line[a + j - 1]]

\* C5: for an output made of the header line and then lines (none holding a
\* line boundary of str.splitlines within it) of which K hold
\* the liveness marker, get_connected_devices returns exactly K identifiers,
\* the i-th being the first white-space delimited token of the i-th line that
\* holds the marker; the header gives no identifier.
C5_Discovery ==
    fout # Pending =>
        LET marked == SelectSeq(fin, HasMarker)
        IN  /\ Len(fout) = Len(marked)
            /\ \A i \in 1..Len(marked) : fout[i] = FirstToken(marked[i])
            /\ \A i \in 1..Len(fout) : fout[i] # FirstToken(Header)

\* two identifiers returned from three lines, one of them without the marker
C5_Witness ==
    /\ fout # Pending
    /\ Len(fin) = 3
    /\ fout = << <<"Z","Y","2","2">>, <<"0","A","1">> >>

-----------------------------------------------------------------------------
(* The destination of a recent file. *)

\* the timestamp of the run the function-level specifications are placed in
RunStamp == Strftime(CHOOSE t \in StartTimes : TRUE)

\* source directories: those of the program, and others that hold none, one
\* or two of the markers
RouteDirectories ==
    { <<"/","s","d","c","a","r","d","/","M","o","v","i","e","s">>, <<"/","s","d","c","a","r","d","/","D","o","c","u","m","e","n","t","s","/","N","a","v","s","u","i","t","e">>, <<"/","s","d","c","a","r","d","/","m","o","v","i","e","s">>, <<"/","s","d","c","a","r","d","/","D","C","I","M">>,
      <<"/","s","d","c","a","r","d","/","M","o","v","i","e","s","/","N","a","v","s","u","i","t","e">>, <<"/","s","d","c","a","r","d","/","M","o","v","i","e","s","/","C","o","n","s","o","l","e","L","o","g","s">>,
      <<"/","s","d","c","a","r","d","/","N","a","v","s","u","i","t","e","/","L","o","g","s","/","C","o","n","s","o","l","e","L","o","g","s">> }
    \cup {dirs_to_check[j] \o <<"/","L","o","g","s","/","C","o","n","s","o","l","e","L","o","g","s">> : j \in 1..Len(dirs_to_check)}

RouteFiles == { <<"s","c","r","e","e","n","-","2","0","2","4","0","1","0","1",".","m","p","4">>, <<"s","c","r","e","e","n","-">>, <<"S","c","r","e","e","n","-","1",".","m","p","4">>, <<"m","y"," ","s","c","r","e","e","n","-","2",".","m","p","4">>,
               <<"n","a","v",".","l","o","g">>, <<"l","o","g",".","t","x","t">>, <<"s","c","r","e","e","n">> }

InitRoute ==
    /\ PipelineIdle
    /\ fin \in [directory : RouteDirectories, recent_file : RouteFiles]
    /\ fout = Pending

Route ==
    /\ fout = Pending
    /\ fout' = LocalPath(RunStamp, fin.directory, fin.recent_file, report_dir(RunStamp))
    /\ UNCHANGED <<pvars, fin>>

NextRoute == Route

SpecRoute == InitRoute /\ [][NextRoute]_vars

\* sub occurs in s at some position
Occurs(sub, s) ==
    \E i \in 1..Len(s) :
        /\ i + Len(sub) - 1 <= Len(s)
        /\ \A j \in 1..Len(sub) : s[i + j - 1] = sub[j]

\* the first Len(p) characters of s are those of p
Begins(s, p) == Len(p) <= Len(s) /\ \A j \in 1..Len(p) : s[j] = p[j]

\* the folder name, a separator, the file name
InFolder(folder, file) == <<"i","n","c","i","d","e","n","t","_","r","e","p","o","r","t","s","/","r","e","p","o","r","t","_">> \o RunStamp \o folder \o <<"/">> \o file

\* C8: the destination of a recent file is chosen by the first rule that
\* matches, in this order: the directory holds "Movies" and the file name
\* begins with "screen-": the recordings folder; the directory holds
\* "ConsoleLogs": the bridge-log folder; the directory holds "Navsuite": the
\* nav-log folder; otherwise the report directory itself.  So
\* screen-20240101.mp4 listed in /sdcard/Movies goes to the recordings folder,
\* and every file of a console-log directory of an application goes to the
\* bridge-log folder.
C8_Routing ==
    fout # Pending =>
        LET movie == Occurs(<<"M","o","v","i","e","s">>, fin.directory) /\ Begins(fin.recent_file, <<"s","c","r","e","e","n","-">>)
            console == Occurs(<<"C","o","n","s","o","l","e","L","o","g","s">>, fin.directory)
            nav == Occurs(<<"N","a","v","s","u","i","t","e">>, fin.directory)
        IN  /\ movie => fout = InFolder(<<"/","S","c","r","e","e","n"," ","R","e","c","o","r","d","i","n","g","s">>, fin.recent_file)
            /\ (~movie /\ console) => fout = InFolder(<<"/","Q","G","C"," ","L","o","g","s">>, fin.recent_file)
            /\ (~movie /\ ~console /\ nav) =>
                   fout = InFolder(<<"/","N","a","v","s","u","i","t","e"," ","L","o","g","s">>, fin.recent_file)
            /\ (~movie /\ ~console /\ ~nav) => fout = InFolder(<<>>, fin.recent_file)
            /\ (fin.directory = <<"/","s","d","c","a","r","d","/","M","o","v","i","e","s">> /\ fin.recent_file = <<"s","c","r","e","e","n","-","2","0","2","4","0","1","0","1",".","m","p","4">>)
                   => fout = InFolder(<<"/","S","c","r","e","e","n"," ","R","e","c","o","r","d","i","n","g","s">>, <<"s","c","r","e","e","n","-","2","0","2","4","0","1","0","1",".","m","p","4">>)
            /\ (\E j \in 1..Len(dirs_to_check) :
                    fin.directory = dirs_to_check[j] \o <<"/","L","o","g","s","/","C","o","n","s","o","l","e","L","o","g","s">>)
                   => fout = InFolder(<<"/","Q","G","C"," ","L","o","g","s">>, fin.recent_file)

\* a directory that holds both the console-log and the nav-log marker
C8_Witness ==
    /\ fout # Pending
    /\ fin.directory = <<"/","s","d","c","a","r","d","/","N","a","v","s","u","i","t","e","/","L","o","g","s","/","C","o","n","s","o","l","e","L","o","g","s">>
    /\ fout = InFolder(<<"/","Q","G","C"," ","L","o","g","s">>, <<"n","a","v",".","l","o","g">>)

-----------------------------------------------------------------------------
(* pull_directory over a listing. *)

\* most entries of a listing
MaxItems == 3

ListedNames == { <<".","t","h","u","m","b","n","a","i","l","s","/">>, <<"a",".","j","p","g">>, <<"D","C","I","M","/">>, <<"x",".","t","h","u","m","b","n","a","i","l","s",".","b","a","k">> }

\* what "ls -p" prints: every entry on a line of its own
LsText(items) == Flatten([i \in 1..Len(items) |-> items[i] \o <<"\n">>])

PulledDirectory == <<"/","s","d","c","a","r","d","/","P","i","c","t","u","r","e","s">>

\* the local state before the call: the report folders, no file, no command yet
PullDirStart == [fs |-> EmptyFS, dirs |-> InitialDirs(RunStamp), calls |-> <<>>]

InitPullDir ==
    /\ PipelineIdle
    /\ fin \in [items : SeqsUpTo(ListedNames, MaxItems),
                oks : [1..(MaxItems + 1) -> BOOLEAN]]
    /\ fout = PullDirStart

PullDirectoryOnce ==
    /\ fout.calls = <<>>
    /\ fout' = pull_directory(fout, PulledDirectory, report_dir(RunStamp),
                              LsText(fin.items), fin.oks)
    /\ UNCHANGED <<pvars, fin>>

NextPullDir == PullDirectoryOnce

SpecPullDir == InitPullDir /\ [][NextPullDir]_vars

\* the name without the "/" characters at its end
WithoutSlashes(name) ==
    LET kept == {i \in 1..Len(name) : name[i] # "/"}
    IN  IF kept = {} THEN <<>>
        ELSE [j \in 1..(CHOOSE i \in kept : \A k \in kept : k <= i) |-> name[j]]

\* C9: for every listing of a device directory that pull_directory obtains,
\* the pulls it attempts are, in listing order, one for each entry whose name
\* does not hold ".thumbnails", failed pulls included, each into the local
\* folder named after the directory; no entry holding the marker is pulled.
C9_Thumbnails ==
    (fout.calls # <<>> /\ fin.oks[1]) =>
        LET pulls == SelectSeq(fout.calls, LAMBDA c : c.op = "pull")
            wanted == SelectSeq(fin.items, LAMBDA item : ~Occurs(<<".","t","h","u","m","b","n","a","i","l","s">>, item))
            position(i) == CHOOSE k \in 1..Len(fin.items) :
                               /\ ~Occurs(<<".","t","h","u","m","b","n","a","i","l","s">>, fin.items[k])
                               /\ Cardinality({m \in 1..k :
                                      ~Occurs(<<".","t","h","u","m","b","n","a","i","l","s">>, fin.items[m])}) = i
        IN  /\ Len(pulls) = Len(wanted)
            /\ \A i \in 1..Len(wanted) :
                  /\ pulls[i].src = PulledDirectory \o <<"/">> \o WithoutSlashes(wanted[i])
                  /\ pulls[i].dst = <<"i","n","c","i","d","e","n","t","_","r","e","p","o","r","t","s","/","r","e","p","o","r","t","_">> \o RunStamp \o <<"/","P","i","c","t","u","r","e","s">>
                  /\ pulls[i].ok = fin.oks[position(i) + 1]
            /\ \A i \in 1..Len(pulls) : ~Occurs(<<".","t","h","u","m","b","n","a","i","l","s">>, pulls[i].src)
            /\ Len(fout.calls) = Len(pulls) + 1

\* a marked entry skipped, then a failed pull, then a successful pull of a directory
C9_Witness ==
    /\ fout.calls # <<>>
    /\ fin.oks[1]
    /\ fin.items = << <<"x",".","t","h","u","m","b","n","a","i","l","s",".","b","a","k">>, <<"a",".","j","p","g">>, <<"D","C","I","M","/">> >>
    /\ Len(fout.calls) = 3
    /\ ~fout.calls[2].ok
    /\ fout.calls[3].ok
    /\ fout.calls[3].src = <<"/","s","d","c","a","r","d","/","P","i","c","t","u","r","e","s","/","D","C","I","M">>

-----------------------------------------------------------------------------
(* create_zip run twice over one report directory. *)

\* most files on disk before the first packaging
MaxFiles == 4

\* the timestamp of the second packaging: one second after the first
LaterStamp == Strftime([(CHOOSE t \in StartTimes : TRUE) EXCEPT !.second = @ + 1])

ReportRoot == report_dir(RunStamp)

\* files that may lie on disk, as <<path, content>>: collected artifacts, a
\* metadata.txt left by an earlier packaging, a file of a sibling directory
\* whose name begins like the report directory, and an older archive
DiskFiles ==
    { << ReportRoot \o <<"/","D","e","v","i","c","e"," ","I","n","f","o","/","l","o","g","c","a","t",".","t","x","t">>, <<"I","/","g","c","s",":"," ","u","p">> >>,
      << ReportRoot \o <<"/","Q","G","C"," ","L","o","g","s","/","l","o","g",".","t","x","t">>, <<"q","g","c">> >>,
      << ReportRoot \o <<"/","N","a","v","s","u","i","t","e"," ","L","o","g","s","/","l","o","g",".","t","x","t">>, <<"n","a","v">> >>,
      << ReportRoot \o <<"/","M","o","v","i","e","s","/","O","l","d","/","o",".","m","p","4">>, <<"v","i","d","e","o">> >>,
      << ReportRoot \o <<"/","m","e","t","a","d","a","t","a",".","t","x","t">>, <<"s","t","a","l","e">> >>,
      << ReportRoot \o <<"x","/","y",".","t","x","t">>, <<"s","i","b","l","i","n","g">> >>,
      << incident_dir \o <<"/","Q","A","_","b","u","g","_","r","e","p","o","r","t","_","o","l","d",".","z","i","p">>, <<"z","i","p">> >> }

\* the file systems holding at most MaxFiles of them
Disks ==
    {[p \in {f[1] : f \in chosen} |-> (CHOOSE f \in chosen : f[1] = p)[2]] :
        chosen \in {S \in SUBSET DiskFiles : Cardinality(S) <= MaxFiles}}

InitZip ==
    /\ PipelineIdle
    /\ fin \in Disks
    /\ fout = [runs |-> 0, fs |-> fin, first |-> NoArchive, second |-> NoArchive]

\* the first packaging, at RunStamp
ZipFirst ==
    /\ fout.runs = 0
    /\ LET z == create_zip(fout.fs, ReportRoot, zip_file_name(RunStamp),
                           Metadata(<<"c","r","a","s","h">>, RunStamp, <<"R","5","8","M">>))
       IN  fout' = [runs |-> 1, fs |-> z.fs, first |-> z.archive, second |-> NoArchive]
    /\ UNCHANGED <<pvars, fin>>

\* the second packaging of the same directory, at LaterStamp
ZipSecond ==
    /\ fout.runs = 1
    /\ LET z == create_zip(fout.fs, ReportRoot, zip_file_name(LaterStamp),
                           Metadata(<<"c","r","a","s","h">>, LaterStamp, <<"R","5","8","M">>))
       IN  fout' = [runs |-> 2, fs |-> z.fs, first |-> fout.first, second |-> z.archive]
    /\ UNCHANGED <<pvars, fin>>

NextZip == ZipFirst \/ ZipSecond

SpecZip == InitZip /\ [][NextZip]_vars

\* the relative paths an archive holds
Names(a) == {e.name : e \in Entries(a)}

\* the files below the report directory before the first packaging, and the
\* path of such a file relative to the report root
Below == {p \in DOMAIN fin : Begins(p, ReportRoot \o <<"/">>)}
Relative(p) == [j \in 1..(Len(p) - Len(ReportRoot) - 1) |-> p[j + Len(ReportRoot) + 1]]

\* the texts differ in nothing but the timestamps s and t of their second lines
SameButTimestamp(x, s, y, t) ==
    LET xs == SplitLines(x)
        ys == SplitLines(y)
    IN  /\ Len(xs) = 3 /\ Len(ys) = 3
        /\ xs[1] = ys[1] /\ xs[3] = ys[3]
        /\ xs[2] = <<"T","i","m","e","s","t","a","m","p",":"," ">> \o s
        /\ ys[2] = <<"T","i","m","e","s","t","a","m","p",":"," ">> \o t

\* C7: two packagings of one report directory, nothing else changing it in
\* between, with different timestamps, give archives with the same set of
\* relative paths and, read by path, the same contents, but for the timestamp
\* line of metadata.txt; in each archive every regular file below the report
\* directory is entered with its content under its path relative to the
\* report root, and nothing from outside is.
C7_Idempotent ==
    /\ fout.runs >= 1 =>
          /\ Names(fout.first) = {Relative(p) : p \in Below} \cup { <<"m","e","t","a","d","a","t","a",".","t","x","t">> }
          /\ \A p \in Below :
                [name |-> Relative(p), data |-> fin[p]] \in fout.first.walked
    /\ fout.runs = 2 =>
          /\ Names(fout.first) = Names(fout.second)
          /\ \A name \in Names(fout.first) \ { <<"m","e","t","a","d","a","t","a",".","t","x","t">> } :
                ReadEntry(fout.first, name) = ReadEntry(fout.second, name)
          /\ SameButTimestamp(ReadEntry(fout.first, <<"m","e","t","a","d","a","t","a",".","t","x","t">>), RunStamp,
                              ReadEntry(fout.second, <<"m","e","t","a","d","a","t","a",".","t","x","t">>), LaterStamp)
          /\ \A p \in DOMAIN fout.fs :
                Begins(p, ReportRoot \o <<"/">>) => Relative(p) \in Names(fout.second)
          /\ \A p \in Below :
                Relative(p) # <<"m","e","t","a","d","a","t","a",".","t","x","t">> =>
                    [name |-> Relative(p), data |-> fin[p]] \in fout.second.walked

\* two packagings of a directory with two files of one name in different
\* folders, beside a sibling directory and an older archive; the second
\* archive also holds the metadata.txt that the first packaging left
C7_Witness ==
    /\ fout.runs = 2
    /\ DOMAIN fin = {ReportRoot \o <<"/","Q","G","C"," ","L","o","g","s","/","l","o","g",".","t","x","t">>, ReportRoot \o <<"/","N","a","v","s","u","i","t","e"," ","L","o","g","s","/","l","o","g",".","t","x","t">>,
                     ReportRoot \o <<"x","/","y",".","t","x","t">>, incident_dir \o <<"/","Q","A","_","b","u","g","_","r","e","p","o","r","t","_","o","l","d",".","z","i","p">>}
    /\ Cardinality(fout.first.walked) = 2
    /\ Cardinality(fout.second.walked) = 3
    /\ [name |-> <<"m","e","t","a","d","a","t","a",".","t","x","t">>, data |-> fout.first.metadata] \in fout.second.walked

=============================================================================
